---- MODULE Spec2Model ----
(***************************************************************************)
(* Task orchestration of the story generation proxy: the three route       *)
(* handlers (generate = submit, status, result), the proxy database        *)
(* helpers they call, the external generation service and the store.       *)
(* Every await of a handler that reads or writes shared state is one step. *)
(***************************************************************************)
EXTENDS Integers, Sequences, FiniteSets, TLC

\* ------------------------------------------------------------------ bounds
MaxTasks == 1       \* local task ids that uuidv4 hands out
MaxReqs == 4        \* requests started in one behaviour
MaxSlots == 2       \* requests in flight at the same time
MaxFaults == 1      \* store operations the store rejects in one behaviour
MaxCalls == 4       \* direct calls of checkRateLimit in one behaviour
MaxCeiling == 2     \* ceilings passed to checkRateLimit: 1..MaxCeiling
MaxTime == 62       \* the clock stops here (minutes)
MaxLines == 3       \* lines of a generated result stream
MaxStory == 5       \* lines of a generated story text

\* ------------------------------------------------------- program constants
GenerateCeiling == 50
StatusCeiling == 200
ResultCeiling == 100
WindowMinutes == 60

Users == {"u1", "u2"}
Submitters == {"u1"}            \* callers are interchangeable: u1 owns the tasks
Slots == 1..MaxSlots
TaskIds == 1..MaxTasks
NoId == 0
NoSuchTask == MaxTasks + 1      \* a task id no submit ever generated

VARIABLES
    tasks,      \* story_generation_tasks, rows in insertion order
    mappings,   \* suna_task_mapping, rows in insertion order
    storybooks, \* storybooks, rows in insertion order
    pagesTbl,   \* storybook_pages, rows in insertion order
    links,      \* user_storybooks, rows in insertion order
    rl,         \* api_rate_limits, a set of rows (unique on user, endpoint, start)
    jobs,       \* agent runs of the external service, indexed by run id
    req,        \* the requests in flight, one per slot
    known,      \* task ids that a response has disclosed to a caller
    out,        \* the response produced by the last step, with its request
    returned,   \* the documents that result responses have carried, per task
    started,    \* requests started so far
    ids,        \* local task ids handed out so far
    faults,     \* store operations rejected so far
    now,        \* the clock, in minutes
    callers,    \* the users that send requests
    lanes,      \* how many requests the callers keep in flight at a time
    limit,      \* the ceiling that direct calls of checkRateLimit pass
    admitted,   \* the calls checkRateLimit has allowed, in order, with their time
    reader,     \* the reader loop on its own: lines sent, bytes left, result
    parser      \* parseStoryContent on its own: the text passed, the value returned

vars == <<tasks, mappings, storybooks, pagesTbl, links, rl, jobs, req, known,
          out, returned, started, ids, faults, now, callers, lanes, limit, admitted, reader, parser>>

\* ------------------------------------------------------------ store helpers
\* PostgREST .single(): the row when exactly one matches, otherwise no data.
Matching(tbl, P(_)) == SelectSeq(tbl, P)
HasSingle(tbl, P(_)) == Len(Matching(tbl, P)) = 1
Single(tbl, P(_)) == Matching(tbl, P)[1]
\* .update(patch).eq(...): every matching row is rewritten.
UpdateWhere(tbl, P(_), F(_)) ==
    [i \in DOMAIN tbl |-> IF P(tbl[i]) THEN F(tbl[i]) ELSE tbl[i]]

ThreadIdOf(j) == j + MaxTasks   \* the thread id the service pairs with run j

NoDoc == [title |-> <<>>, pages |-> {}]
NoResp == [code |-> 0, status |-> "none", task_id |-> NoId, thread |-> NoId,
           run |-> NoId, body |-> "none", doc |-> NoDoc, raw |-> <<>>]
Idle == [kind |-> "none", user |-> "none", cred |-> "none", tid |-> NoId,
         pc |-> "idle", st |-> "none", run |-> NoId, thread |-> NoId,
         ext |-> "none", raw |-> <<>>, sb |-> 0,
         logged |-> FALSE, calledAt |-> 0, seen |-> {}]
NoOut == [kind |-> "none", user |-> "none", tid |-> NoId, logged |-> FALSE,
          ext |-> "none", resp |-> NoResp, sink |-> "none", meant |-> NoResp]

\* The audit sink (logError, logRequest, recordMetric): the handlers that
\* answer r call it before they return when they log an error, answer 500,
\* or answer 200 from submit, from a status check or with a storybook.
SinkCalled(kind, r, logged) ==
    \/ logged
    \/ r.code = 500
    \/ r.code = 200 /\ (kind \in {"submit", "status"} \/ r.body = "storybook")
\* The insert into the sink table is accepted or rejected.
SinkFates(kind, r, logged) ==
    IF SinkCalled(kind, r, logged) THEN {"ok", "failed"} ELSE {"none"}
\* Faulty variant: a rejected sink insert is thrown to the outer catch.
AfterSink_Throws(fate, r) ==
    IF fate = "failed"
    THEN [NoResp EXCEPT !.code = 500, !.body = "Internal server error"] ELSE r
\* if (error) { console.error(...) }: the sink function returns normally and
\* the handler returns the response it was about to return.
AfterSink(fate, r) == r

\* A response ends the request: the handler returns NextResponse.json(...).
\* A task id carried by the response is from then on known to callers.
RespondAs(s, r, logged, ext) ==
    /\ req' = [req EXCEPT ![s] = Idle]
    /\ \E fate \in SinkFates(req[s].kind, r, req[s].logged \/ logged) :
         out' = [kind |-> req[s].kind, user |-> req[s].user, tid |-> req[s].tid,
                 logged |-> req[s].logged \/ logged, ext |-> ext,
                 resp |-> AfterSink(fate, r), sink |-> fate, meant |-> r]
    /\ known' = IF r.task_id = NoId THEN known ELSE known \cup {r.task_id}
    /\ returned' = IF r.body = "storybook"
                   THEN returned \cup {<<req[s].tid, r.doc>>} ELSE returned
Respond(s, r, logged) == RespondAs(s, r, logged, req[s].ext)
Goto(s, label) == req' = [req EXCEPT ![s].pc = label]
\* A step that answers no request leaves the output port empty.
Silent == out' = NoOut
Quiet == known' = known /\ returned' = returned /\ Silent

At(s, kind, label) == req[s].kind = kind /\ req[s].pc = label

\* The store may reject an operation whose error the code looks at.
MayFault == faults < MaxFaults

\* ------------------------------------------- the result stream and its text
\* Characters are one-symbol strings: "biao" "ti" ":" spell the title marker,
\* "di" <digits> "ye" ":" a page header, "wen" "zi" ":" the text marker and
\* "tu" "pian" ":" the image marker; "NL" is the line feed, " " a blank.
NL == "NL"
TitleMarker == <<"biao", "ti", ":">>
TextMarker == <<"wen", "zi", ":">>
ImageMarker == <<"tu", "pian", ":">>
Digits == {"1", "2"}
DataPrefix == "data: "

\* The JSON payloads the service sends; any other payload does not parse.
Messages ==
    [J1 |-> [type |-> "message", role |-> "assistant",
             content |-> TitleMarker \o <<"a", NL, "di", "1", "ye", ":", NL>>
                         \o TextMarker \o <<"b", NL>>],
     J2 |-> [type |-> "message", role |-> "assistant",
             content |-> ImageMarker \o <<"c", NL, NL, "di", "2", "ye", NL, " ">>
                         \o TextMarker \o <<" ", "d", NL>> \o ImageMarker \o <<"e">>],
     J3 |-> [type |-> "message", role |-> "user", content |-> TitleMarker \o <<"z", NL>>],
     J4 |-> [type |-> "status", role |-> "assistant", content |-> <<"x">>],
     J5 |-> [type |-> "message", role |-> "assistant",
             content |-> <<"di", "1", "ye", ":", NL>> \o TextMarker \o <<"b", NL>>
                         \o ImageMarker \o <<"c">>],
     J6 |-> [type |-> "message", role |-> "assistant", content |-> <<>>]]

\* The result streams of completed runs, each a sequence of read buffers.
Streams ==
    << \* a title and two complete pages, with an echo and a broken line between
       << <<DataPrefix, "J3", NL, DataPrefix, "J1", NL, ":", "x", NL>>,
          <<DataPrefix, "bad", NL, NL, DataPrefix, "J4", NL>>,
          <<DataPrefix, "J2", NL>> >>,
       \* a page but no title: the text does not parse into a document
       << <<DataPrefix, "J5", NL, DataPrefix, "J6", NL>> >> >>

RECURSIVE SplitOn(_, _)
\* String.split(sep): the pieces between the separators, empty ones included.
SplitOn(text, sep) ==
    IF \A i \in DOMAIN text : text[i] # sep
    THEN <<text>>
    ELSE LET k == CHOOSE i \in DOMAIN text :
                      text[i] = sep /\ \A h \in 1..(i - 1) : text[h] # sep
         IN  <<SubSeq(text, 1, k - 1)>> \o SplitOn(SubSeq(text, k + 1, Len(text)), sep)

StartsWith(line, prefix) ==
    Len(line) >= Len(prefix) /\ SubSeq(line, 1, Len(prefix)) = prefix

\* One line of a read buffer: the content it adds to the accumulated text.
LineContent(line) ==
    IF /\ StartsWith(line, <<DataPrefix>>)
       /\ Len(line) = 2
       /\ line[2] \in DOMAIN Messages
       /\ Messages[line[2]].type = "message"
       /\ Messages[line[2]].content # <<>>
       /\ Messages[line[2]].role = "assistant"
    THEN Messages[line[2]].content
    ELSE <<>>

RECURSIVE Concat(_)
Concat(seqs) == IF seqs = <<>> THEN <<>> ELSE Head(seqs) \o Concat(Tail(seqs))

\* chunk.split('\n') and the loop over its lines.
ChunkContent(chunk) ==
    LET lines == SplitOn(chunk, NL)
    IN  Concat([i \in DOMAIN lines |-> LineContent(lines[i])])

\* The reader loop before a stream is opened.
NoReader == [pc |-> "closed", lines |-> <<>>, wire |-> <<>>, result |-> <<>>,
             split |-> FALSE]

\* The reader loop: result after the stream has ended.
ReadStream(stream) == Concat([i \in DOMAIN stream |-> ChunkContent(stream[i])])

RECURSIVE TrimLeft(_)
TrimLeft(line) ==
    IF line # <<>> /\ Head(line) = " " THEN TrimLeft(Tail(line)) ELSE line
RECURSIVE TrimRight(_)
TrimRight(line) ==
    IF line # <<>> /\ line[Len(line)] = " "
    THEN TrimRight(SubSeq(line, 1, Len(line) - 1)) ELSE line
Trim(line) == TrimRight(TrimLeft(line))

\* /^第\d+页：?$/
IsPageHeader(line) ==
    /\ Len(line) >= 3
    /\ line[1] = "di"
    /\ \E k \in 3..Len(line) :
         /\ line[k] = "ye"
         /\ \A i \in 2..(k - 1) : line[i] \in Digits
         /\ \/ k = Len(line)
            \/ k + 1 = Len(line) /\ line[k + 1] = ":"

NoPage == [open |-> FALSE, text |-> <<>>, image |-> <<>>]
\* Faulty variant: a page with a text and no image is kept.
Complete_TextOnly(page) == page.open /\ page.text # <<>>
\* currentPage && currentPage.text && currentPage.image
Complete(page) == page.open /\ page.text # <<>> /\ page.image # <<>>
PageOf(page) == [text |-> page.text, image |-> page.image]
AfterMarker(line, marker) == Trim(SubSeq(line, Len(marker) + 1, Len(line)))

\* Faulty variant: a title line ends the page under construction.
ParseLine_TitleClosesPage(acc, line) ==
    IF StartsWith(line, TitleMarker)
    THEN [acc EXCEPT !.title = AfterMarker(line, TitleMarker), !.cur = NoPage]
    ELSE IF IsPageHeader(line)
    THEN [acc EXCEPT !.pages = IF Complete(acc.cur) THEN Append(@, PageOf(acc.cur)) ELSE @,
                     !.cur = [open |-> TRUE, text |-> <<>>, image |-> <<>>]]
    ELSE IF StartsWith(line, TextMarker)
    THEN IF acc.cur.open
         THEN [acc EXCEPT !.cur.text = AfterMarker(line, TextMarker)] ELSE acc
    ELSE IF StartsWith(line, ImageMarker)
    THEN IF acc.cur.open
         THEN [acc EXCEPT !.cur.image = AfterMarker(line, ImageMarker)] ELSE acc
    ELSE acc

\* The body of the for loop of parseStoryContent, for one line.
ParseLine(acc, line) ==
    IF StartsWith(line, TitleMarker)
    THEN [acc EXCEPT !.title = AfterMarker(line, TitleMarker)]
    ELSE IF IsPageHeader(line)
    THEN [acc EXCEPT !.pages = IF Complete(acc.cur) THEN Append(@, PageOf(acc.cur)) ELSE @,
                     !.cur = [open |-> TRUE, text |-> <<>>, image |-> <<>>]]
    ELSE IF StartsWith(line, TextMarker)
    THEN IF acc.cur.open
         THEN [acc EXCEPT !.cur.text = AfterMarker(line, TextMarker)] ELSE acc
    ELSE IF StartsWith(line, ImageMarker)
    THEN IF acc.cur.open
         THEN [acc EXCEPT !.cur.image = AfterMarker(line, ImageMarker)] ELSE acc
    ELSE acc

RECURSIVE ParseLines(_, _)
ParseLines(acc, lines) ==
    IF lines = <<>> THEN acc ELSE ParseLines(ParseLine(acc, Head(lines)), Tail(lines))

NonEmpty(line) == Len(line) > 0

parseStoryContent(content) ==
    LET split == SplitOn(content, NL)
        lines == SelectSeq([i \in DOMAIN split |-> Trim(split[i])], NonEmpty)
        acc == ParseLines([title |-> <<>>, pages |-> <<>>, cur |-> NoPage], lines)
    IN  [title |-> acc.title,
         pages |-> IF Complete(acc.cur) THEN Append(acc.pages, PageOf(acc.cur))
                   ELSE acc.pages]

\* parseStoryContent before it is called.
NoParser == [pc |-> "idle", lines |-> <<>>, ret |-> [title |-> <<>>, pages |-> <<>>]]

\* ------------------------------------------------------------ request slots
Free(s) == req[s].pc = "idle" /\ s <= lanes
\* Slots are interchangeable: a new request takes the lowest free one.
LowestFree(s) == Free(s) /\ \A q \in Slots : q < s => ~Free(q)
\* A request that is answered before it reads or writes any row commutes with
\* every other step: it is taken while no other request is in flight.
NoneInFlight(s) == s = 1 /\ \A q \in Slots : req[q].pc = "idle"

Kinds == {"submit", "status", "result"}
Creds == {"none", "nojwt", "ok"}    \* no user / user without session token / both

Endpoint(kind) == kind
Ceiling(kind) ==
    CASE kind = "submit" -> GenerateCeiling
      [] kind = "status" -> StatusCeiling
      [] OTHER -> ResultCeiling

uuidv4 == ids + 1

\* ---------------------------------------------------------- checkRateLimit
\* Faulty variant: a window never expires.
WindowRows_AnyAge(rows, user, endpoint, t) ==
    {row \in rows : row.user_id = user /\ row.endpoint = endpoint}

\* The rows of (user, endpoint) whose window started within the last hour.
WindowRows(rows, user, endpoint, t) ==
    {row \in rows : /\ row.user_id = user
                    /\ row.endpoint = endpoint
                    /\ row.window_start >= t - WindowMinutes}

\* .single(): the row when exactly one matches; no row and several rows are
\* both PGRST116, which leaves existing empty.
HasExisting(rows, user, endpoint, t) ==
    Cardinality(WindowRows(rows, user, endpoint, t)) = 1
Existing(rows, user, endpoint, t) ==
    CHOOSE row \in WindowRows(rows, user, endpoint, t) : TRUE

\* Faulty variant: the request that meets a full window is still allowed.
AtCeiling_Strict(row, ceiling) == row.request_count > ceiling

\* existing.request_count >= maxRequests
AtCeiling(row, ceiling) == row.request_count >= ceiling

\* if (existing) { if (existing.request_count >= maxRequests) return false
RateDenies(rows, user, endpoint, ceiling, t) ==
    /\ HasExisting(rows, user, endpoint, t)
    /\ AtCeiling(Existing(rows, user, endpoint, t), ceiling)

\* Faulty variant: the update leaves the counter as it is.
RateUpdated_NoCount(rows, user, endpoint, start, count) == rows

\* update({request_count: count + 1}).eq('id', existing.id); a row is
\* identified by its unique (user_id, endpoint, window_start).
RateUpdated(rows, user, endpoint, start, count) ==
    {IF row.user_id = user /\ row.endpoint = endpoint /\ row.window_start = start
     THEN [row EXCEPT !.request_count = count + 1]
     ELSE row : row \in rows}

\* insert of a new window row; UNIQUE(user_id, endpoint, window_start) may
\* reject it, and the code does not look at the outcome.
RateInserted(rows, user, endpoint, ceiling, t) ==
    LET row == [user_id |-> user, endpoint |-> endpoint, request_count |-> 1,
                window_start |-> t, max_requests |-> ceiling]
        clash == {o \in rows : /\ o.user_id = user /\ o.endpoint = endpoint
                               /\ o.window_start = t}
    IN  IF clash # {} THEN rows ELSE rows \cup {row}

\* The table after an allowed call of checkRateLimit that ran without another
\* call in between.
RateCounted(rows, user, endpoint, ceiling, t) ==
    IF HasExisting(rows, user, endpoint, t)
    THEN RateUpdated(rows, user, endpoint,
                     Existing(rows, user, endpoint, t).window_start,
                     Existing(rows, user, endpoint, t).request_count)
    ELSE RateInserted(rows, user, endpoint, ceiling, t)

Body(kind) ==
    CASE kind = "submit" -> "s_task"
      [] kind = "status" -> "t_select"
      [] OTHER -> "r_select"

\* --------------------------------------------------------- request arrival
\* A request arrives, passes supabase.auth.getUser() and is allowed by
\* checkRateLimit, which counts it.
\* The task ids a caller can ask for besides those a response disclosed:
\* the ids of the caller's own rows, which the caller's session can read in
\* story_generation_tasks (the handlers read it with that session).
OwnIds(user) == {tasks[i].id : i \in {j \in DOMAIN tasks : tasks[j].user_id = user}}

Start(s) ==
    /\ LowestFree(s) /\ started < MaxReqs
    /\ \E kind \in Kinds, user \in callers, cred \in Creds \ {"none"} :
        /\ kind = "submit" => ids < MaxTasks /\ user \in Submitters
        /\ ~RateDenies(rl, user, Endpoint(kind), Ceiling(kind), now)
        /\ rl' = RateCounted(rl, user, Endpoint(kind), Ceiling(kind), now)
        /\ \E tid \in IF kind = "submit" THEN {uuidv4}
                      ELSE known \cup OwnIds(user) \cup {NoSuchTask} :
             req' = [req EXCEPT ![s] =
                        [Idle EXCEPT !.kind = kind, !.user = user, !.cred = cred,
                                     !.tid = tid, !.pc = Body(kind)]]
        /\ ids' = IF kind = "submit" THEN ids + 1 ELSE ids
    /\ started' = started + 1
    /\ UNCHANGED <<tasks, mappings, storybooks, pagesTbl, links, jobs,
                   known, returned, faults, now, callers, lanes, limit, admitted, reader, parser>>
    /\ Silent

\* fetchError other than PGRST116 in checkRateLimit: the request is allowed
\* and nothing is written to the rate table.
StartRateLookupError(s) ==
    /\ LowestFree(s) /\ started < MaxReqs
    /\ MayFault
    /\ \E kind \in Kinds, user \in callers, cred \in Creds \ {"none"} :
        /\ kind = "submit" => ids < MaxTasks /\ user \in Submitters
        /\ \E tid \in IF kind = "submit" THEN {uuidv4}
                      ELSE known \cup OwnIds(user) \cup {NoSuchTask} :
             req' = [req EXCEPT ![s] =
                        [Idle EXCEPT !.kind = kind, !.user = user, !.cred = cred,
                                     !.tid = tid, !.pc = Body(kind)]]
        /\ ids' = IF kind = "submit" THEN ids + 1 ELSE ids
    /\ started' = started + 1
    /\ faults' = faults + 1
    /\ UNCHANGED <<tasks, mappings, storybooks, pagesTbl, links, rl, jobs,
                   known, returned, now, callers, lanes, limit, admitted, reader, parser>>
    /\ Silent

\* checkRateLimit returns false: 429; only the generate route logs the error.
StartDenied(s) ==
    /\ LowestFree(s)
    /\ \E kind \in Kinds, user \in callers :
        /\ RateDenies(rl, user, Endpoint(kind), Ceiling(kind), now)
        /\ LET r == [NoResp EXCEPT !.code = 429, !.body = "Rate limit exceeded"]
           IN  \E fate \in SinkFates(kind, r, kind = "submit") :
                 out' = [NoOut EXCEPT !.kind = kind, !.user = user,
                                      !.logged = (kind = "submit"),
                                      !.resp = AfterSink(fate, r),
                                      !.sink = fate, !.meant = r]
    /\ UNCHANGED <<tasks, mappings, storybooks, pagesTbl, links, rl, jobs, req,
                   known, returned, started, ids, faults, now, callers, lanes, limit, admitted, reader, parser>>

\* getUser() yields no user: the error is logged and the answer is 401.
StartUnauthorized(s) ==
    /\ NoneInFlight(s)
    /\ \E kind \in Kinds :
         LET r == [NoResp EXCEPT !.code = 401, !.body = "Unauthorized"]
         IN  \E fate \in SinkFates(kind, r, TRUE) :
               out' = [NoOut EXCEPT !.kind = kind, !.logged = TRUE,
                                    !.resp = AfterSink(fate, r),
                                    !.sink = fate, !.meant = r]
    /\ UNCHANGED <<tasks, mappings, storybooks, pagesTbl, links, rl, jobs, req,
                   known, returned, started, ids, faults, now, callers, lanes, limit, admitted, reader, parser>>

\* status and result without a task_id parameter: 400 before authentication.
StartNoTaskId(s) ==
    /\ NoneInFlight(s)
    /\ \E kind \in {"status", "result"} :
         LET r == [NoResp EXCEPT !.code = 400, !.body = "Task ID is required"]
         IN  out' = [NoOut EXCEPT !.kind = kind, !.resp = r, !.meant = r]
    /\ UNCHANGED <<tasks, mappings, storybooks, pagesTbl, links, rl, jobs, req,
                   known, returned, started, ids, faults, now, callers, lanes, limit, admitted, reader, parser>>

\* ------------------------------------------------ POST /api/suna/generate
TaskOf(tid) == LET me(row) == row.id = tid IN Matching(tasks, me)
MappingOf(tid) == LET me(row) == row.local_task_id = tid IN Matching(mappings, me)

InternalError(s) ==
    Respond(s, [NoResp EXCEPT !.code = 500, !.body = "Internal server error"], TRUE)

NewTask(s) ==
    [id |-> req[s].tid, user_id |-> req[s].user, status |-> "pending",
     error_message |-> "none", thread |-> NoId, run |-> NoId]

\* Faulty variant: the task row is created before the session is looked at.
SubmitNoSession_KeepsRow(s) ==
    /\ At(s, "submit", "s_task") /\ req[s].cred = "nojwt"
    /\ tasks' = Append(tasks, NewTask(s))
    /\ Respond(s, [NoResp EXCEPT !.code = 401, !.body = "No valid session"], TRUE)
    /\ UNCHANGED <<mappings, storybooks, pagesTbl, links, rl, jobs,
                   started, ids, faults, now, callers, lanes, limit, admitted, reader, parser>>

\* No access token in the session: 401 before any row is created.
SubmitNoSession(s) ==
    /\ At(s, "submit", "s_task") /\ req[s].cred = "nojwt"
    /\ Respond(s, [NoResp EXCEPT !.code = 401, !.body = "No valid session"], TRUE)
    /\ UNCHANGED <<tasks, mappings, storybooks, pagesTbl, links, rl, jobs,
                   started, ids, faults, now, callers, lanes, limit, admitted, reader, parser>>

\* insert into story_generation_tasks; the primary key rejects a reused id.
SubmitInsertTask(s) ==
    /\ At(s, "submit", "s_task") /\ req[s].cred = "ok"
    /\ IF Len(TaskOf(req[s].tid)) = 0
       THEN /\ tasks' = Append(tasks, NewTask(s))
            /\ Goto(s, "s_map")
            /\ Quiet
       ELSE /\ UNCHANGED tasks
            /\ Respond(s, [NoResp EXCEPT !.code = 500,
                                         !.body = "Failed to create task"], TRUE)
    /\ UNCHANGED <<mappings, storybooks, pagesTbl, links, rl, jobs,
                   started, ids, faults, now, callers, lanes, limit, admitted, reader, parser>>

\* taskError: the store rejects the insert, the answer is 500.
SubmitInsertTaskError(s) ==
    /\ At(s, "submit", "s_task") /\ req[s].cred = "ok"
    /\ MayFault
    /\ faults' = faults + 1
    /\ Respond(s, [NoResp EXCEPT !.code = 500, !.body = "Failed to create task"], TRUE)
    /\ UNCHANGED <<tasks, mappings, storybooks, pagesTbl, links, rl, jobs,
                   started, ids, now, callers, lanes, limit, admitted, reader, parser>>

NewMapping(s) ==
    [local_task_id |-> req[s].tid, user_id |-> req[s].user, status |-> "pending",
     thread |-> NoId, run |-> NoId, error_message |-> "none",
     retry_count |-> 0, max_retries |-> 3]

\* createSunaTaskMapping: UNIQUE(local_task_id) rejects a second row for the
\* task; a rejected insert throws and the outer catch answers 500.
SubmitInsertMapping(s) ==
    /\ At(s, "submit", "s_map")
    /\ IF Len(MappingOf(req[s].tid)) = 0
       THEN /\ mappings' = Append(mappings, NewMapping(s))
            /\ Goto(s, "s_init")
            /\ Quiet
       ELSE /\ UNCHANGED mappings
            /\ InternalError(s)
    /\ UNCHANGED <<tasks, storybooks, pagesTbl, links, rl, jobs,
                   started, ids, faults, now, callers, lanes, limit, admitted, reader, parser>>

SubmitInsertMappingError(s) ==
    /\ At(s, "submit", "s_map")
    /\ MayFault
    /\ faults' = faults + 1
    /\ InternalError(s)
    /\ UNCHANGED <<tasks, mappings, storybooks, pagesTbl, links, rl, jobs,
                   started, ids, now, callers, lanes, limit, admitted, reader, parser>>

\* fetch(.../agent/initiate) answers ok: the service starts an agent run and
\* returns its thread id and run id.
SubmitInitiate(s) ==
    /\ At(s, "submit", "s_init")
    /\ LET j == Len(jobs) + 1
       IN  /\ jobs' = Append(jobs, [status |-> "running", content |-> 0,
                                    task |-> req[s].tid, reported |-> "none"])
           /\ req' = [req EXCEPT ![s].pc = "s_upd_task", ![s].run = j,
                                 ![s].thread = ThreadIdOf(j)]
    /\ UNCHANGED <<tasks, mappings, storybooks, pagesTbl, links, rl,
                   known, returned, started, ids, faults, now, callers, lanes, limit, admitted, reader, parser>>
    /\ Silent

\* The initiate call fails (non-success response or unreachable service):
\* the error is logged and thrown to the inner catch.
SubmitInitiateFails(s) ==
    /\ At(s, "submit", "s_init")
    /\ req' = [req EXCEPT ![s].pc = "s_catch_task", ![s].ext = "initiate_error",
                          ![s].logged = TRUE]
    /\ UNCHANGED <<tasks, mappings, storybooks, pagesTbl, links, rl, jobs,
                   known, returned, started, ids, faults, now, callers, lanes, limit, admitted, reader, parser>>
    /\ Silent

\* update({status: 'processing', suna_thread_id, suna_agent_run_id}).eq('id', ...)
SubmitUpdateTask(s) ==
    /\ At(s, "submit", "s_upd_task")
    /\ LET me(row) == row.id = req[s].tid
           set(row) == [row EXCEPT !.status = "processing",
                                   !.thread = req[s].thread, !.run = req[s].run]
       IN  tasks' = UpdateWhere(tasks, me, set)
    /\ Goto(s, "s_upd_map")
    /\ UNCHANGED <<mappings, storybooks, pagesTbl, links, rl, jobs,
                   known, returned, started, ids, faults, now, callers, lanes, limit, admitted, reader, parser>>
    /\ Silent

\* updateError: the rejected update is only written to the console.
SubmitUpdateTaskError(s) ==
    /\ At(s, "submit", "s_upd_task")
    /\ MayFault
    /\ faults' = faults + 1
    /\ Goto(s, "s_upd_map")
    /\ UNCHANGED <<tasks, mappings, storybooks, pagesTbl, links, rl, jobs,
                   known, returned, started, ids, now, callers, lanes, limit, admitted, reader, parser>>
    /\ Silent

\* updateSunaTaskStatus(localTaskId, {thread, run, status: 'processing'}),
\* then the request log, the metric and the 200 response.
SubmitUpdateMapping(s) ==
    /\ At(s, "submit", "s_upd_map")
    /\ LET me(row) == row.local_task_id = req[s].tid
           set(row) == [row EXCEPT !.status = "processing",
                                   !.thread = req[s].thread, !.run = req[s].run]
       IN  mappings' = UpdateWhere(mappings, me, set)
    /\ Respond(s, [NoResp EXCEPT !.code = 200, !.status = "processing",
                                 !.task_id = req[s].tid, !.thread = req[s].thread,
                                 !.run = req[s].run, !.body = "started"], FALSE)
    /\ UNCHANGED <<tasks, storybooks, pagesTbl, links, rl, jobs,
                   started, ids, faults, now, callers, lanes, limit, admitted, reader, parser>>

\* updateSunaTaskStatus throws: control passes to the inner catch.
SubmitUpdateMappingError(s) ==
    /\ At(s, "submit", "s_upd_map")
    /\ MayFault
    /\ faults' = faults + 1
    /\ req' = [req EXCEPT ![s].pc = "s_catch_task", ![s].ext = "store_error"]
    /\ UNCHANGED <<tasks, mappings, storybooks, pagesTbl, links, rl, jobs,
                   known, returned, started, ids, now, callers, lanes, limit, admitted, reader, parser>>
    /\ Silent

\* catch (sunaError): update({status: 'failed', error_message}).eq('id', ...)
SubmitCatchTask(s) ==
    /\ At(s, "submit", "s_catch_task")
    /\ LET me(row) == row.id = req[s].tid
           set(row) == [row EXCEPT !.status = "failed",
                                   !.error_message = req[s].ext]
       IN  tasks' = UpdateWhere(tasks, me, set)
    /\ Goto(s, "s_catch_map")
    /\ UNCHANGED <<mappings, storybooks, pagesTbl, links, rl, jobs,
                   known, returned, started, ids, faults, now, callers, lanes, limit, admitted, reader, parser>>
    /\ Silent

\* catch (sunaError): updateSunaTaskStatus(localTaskId, {status: 'failed',
\* error_message}), the logs, and the 500 response that carries the task id.
SubmitCatchMapping(s) ==
    /\ At(s, "submit", "s_catch_map")
    /\ LET me(row) == row.local_task_id = req[s].tid
           set(row) == [row EXCEPT !.status = "failed",
                                   !.error_message = req[s].ext]
       IN  mappings' = UpdateWhere(mappings, me, set)
    /\ Respond(s, [NoResp EXCEPT !.code = 500, !.status = "failed",
                                 !.task_id = req[s].tid,
                                 !.body = "Failed to start story generation"], TRUE)
    /\ UNCHANGED <<tasks, storybooks, pagesTbl, links, rl, jobs,
                   started, ids, faults, now, callers, lanes, limit, admitted, reader, parser>>

\* updateSunaTaskStatus throws inside the catch block: the outer catch
\* answers 500 without a task id.
SubmitCatchMappingError(s) ==
    /\ At(s, "submit", "s_catch_map")
    /\ MayFault
    /\ faults' = faults + 1
    /\ InternalError(s)
    /\ UNCHANGED <<tasks, mappings, storybooks, pagesTbl, links, rl, jobs,
                   started, ids, now, callers, lanes, limit, admitted, reader, parser>>

\* --------------------------------------------------- GET /api/suna/status
\* .eq('id', taskId).eq('user_id', userId).single()
\* Faulty variant: the select filters on the task id alone.
OwnTask_AnyOwner(tid, user) ==
    LET it(row) == row.id = tid IN Matching(tasks, it)
OwnTask(tid, user) ==
    LET me(row) == row.id = tid /\ row.user_id = user IN Matching(tasks, me)

TaskNotFound(s) ==
    Respond(s, [NoResp EXCEPT !.code = 404, !.body = "Task not found"], TRUE)

\* The select finds the caller's task; the handler keeps the row it read.
StatusSelectTask(s) ==
    /\ At(s, "status", "t_select")
    /\ IF Len(OwnTask(req[s].tid, req[s].user)) = 1
       THEN /\ req' = [req EXCEPT ![s].pc = "t_map",
                                  ![s].st = OwnTask(req[s].tid, req[s].user)[1].status]
            /\ Quiet
       ELSE TaskNotFound(s)
    /\ UNCHANGED <<tasks, mappings, storybooks, pagesTbl, links, rl, jobs,
                   started, ids, faults, now, callers, lanes, limit, admitted, reader, parser>>

\* taskError: a failed select is answered like a task that does not exist.
StatusSelectTaskError(s) ==
    /\ At(s, "status", "t_select")
    /\ MayFault
    /\ faults' = faults + 1
    /\ TaskNotFound(s)
    /\ UNCHANGED <<tasks, mappings, storybooks, pagesTbl, links, rl, jobs,
                   started, ids, now, callers, lanes, limit, admitted, reader, parser>>

\* Faulty variant: the poll no longer depends on the task being in processing.
ShouldPoll_AnyStatus(status, run, cred) == run # NoId /\ cred = "ok"

\* if (task.status === 'processing' && sunaMapping.suna_agent_run_id), if (jwt)
ShouldPoll(status, run, cred) ==
    status = "processing" /\ run # NoId /\ cred = "ok"

StatusBody(s, status) ==
    [NoResp EXCEPT !.code = 200, !.status = status, !.task_id = req[s].tid,
                   !.thread = req[s].thread, !.run = req[s].run, !.body = "status"]

\* getSunaTaskMapping: no single row (PGRST116) is answered 200 with the
\* task status and an error text; otherwise the Suna status is polled only
\* for a processing task whose mapping has a run id and with a session token.
StatusGetMapping(s) ==
    /\ At(s, "status", "t_map")
    /\ LET found == MappingOf(req[s].tid)
       IN  IF Len(found) # 1
           THEN Respond(s, [NoResp EXCEPT !.code = 200, !.status = req[s].st,
                                          !.task_id = req[s].tid,
                                          !.body = "Task mapping not found"], TRUE)
           ELSE IF ShouldPoll(req[s].st, found[1].run, req[s].cred)
           THEN /\ req' = [req EXCEPT ![s].pc = "t_poll", ![s].run = found[1].run,
                                      ![s].thread = found[1].thread]
                /\ Quiet
           ELSE Respond(s, [StatusBody(s, req[s].st) EXCEPT
                               !.thread = found[1].thread, !.run = found[1].run],
                        FALSE)
    /\ UNCHANGED <<tasks, mappings, storybooks, pagesTbl, links, rl, jobs,
                   started, ids, faults, now, callers, lanes, limit, admitted, reader, parser>>

\* getSunaTaskMapping throws: the outer catch answers 500.
StatusGetMappingError(s) ==
    /\ At(s, "status", "t_map")
    /\ MayFault
    /\ faults' = faults + 1
    /\ InternalError(s)
    /\ UNCHANGED <<tasks, mappings, storybooks, pagesTbl, links, rl, jobs,
                   started, ids, now, callers, lanes, limit, admitted, reader, parser>>

\* fetch(.../agent-run/<run id>) answers ok with the run's status.  A
\* terminal status is written through; running is answered as it is.
StatusPoll(s) ==
    /\ At(s, "status", "t_poll")
    /\ req[s].run \in DOMAIN jobs
    /\ IF jobs[req[s].run].status \in {"completed", "failed"}
       THEN /\ req' = [req EXCEPT ![s].pc = "t_upd_task",
                                  ![s].ext = jobs[req[s].run].status]
            /\ jobs' = [jobs EXCEPT ![req[s].run].reported = jobs[req[s].run].status]
            /\ Quiet
       ELSE /\ RespondAs(s, StatusBody(s, req[s].st), FALSE, "running")
            /\ UNCHANGED jobs
    /\ UNCHANGED <<tasks, mappings, storybooks, pagesTbl, links, rl,
                   started, ids, faults, now, callers, lanes, limit, admitted, reader, parser>>

\* Faulty variant: a poll that fails marks the task failed.
StatusPollFails_MarksFailed(s) ==
    /\ At(s, "status", "t_poll")
    /\ LET me(row) == row.id = req[s].tid
           set(row) == [row EXCEPT !.status = "failed"]
       IN  tasks' = UpdateWhere(tasks, me, set)
    /\ RespondAs(s, StatusBody(s, "failed"), TRUE, "poll_error")
    /\ UNCHANGED <<mappings, storybooks, pagesTbl, links, rl, jobs,
                   started, ids, faults, now, callers, lanes, limit, admitted, reader, parser>>

\* The poll is answered with a non-success code, or the fetch throws (then
\* the inner catch logs the error): the task row read before is answered.
StatusPollFails(s) ==
    /\ At(s, "status", "t_poll")
    /\ \/ RespondAs(s, StatusBody(s, req[s].st), FALSE, "poll_not_ok")
       \/ RespondAs(s, StatusBody(s, req[s].st), TRUE, "poll_error")
    /\ UNCHANGED <<tasks, mappings, storybooks, pagesTbl, links, rl, jobs,
                   started, ids, faults, now, callers, lanes, limit, admitted, reader, parser>>

\* Faulty variant: every terminal report is written as completed.
StatusUpdateTask_AlwaysCompleted(s) ==
    /\ At(s, "status", "t_upd_task")
    /\ LET me(row) == row.id = req[s].tid
           set(row) == [row EXCEPT !.status = "completed"]
       IN  tasks' = UpdateWhere(tasks, me, set)
    /\ Goto(s, "t_upd_map")
    /\ UNCHANGED <<mappings, storybooks, pagesTbl, links, rl, jobs,
                   known, returned, started, ids, faults, now, callers, lanes, limit, admitted, reader, parser>>
    /\ Silent

\* update({status: newStatus, completed_at, error_message: sunaData.error});
\* the outcome of the update is not looked at.
StatusUpdateTask(s) ==
    /\ At(s, "status", "t_upd_task")
    /\ LET me(row) == row.id = req[s].tid
           set(row) == [row EXCEPT !.status = req[s].ext,
                                   !.error_message =
                                       IF req[s].ext = "failed" THEN "run_error" ELSE @]
       IN  tasks' = UpdateWhere(tasks, me, set)
    /\ Goto(s, "t_upd_map")
    /\ UNCHANGED <<mappings, storybooks, pagesTbl, links, rl, jobs,
                   known, returned, started, ids, faults, now, callers, lanes, limit, admitted, reader, parser>>
    /\ Silent

\* updateSunaTaskStatus(taskId, {status: newStatus, ...}), then the local
\* task object takes the new status and is answered.
StatusUpdateMapping(s) ==
    /\ At(s, "status", "t_upd_map")
    /\ LET me(row) == row.local_task_id = req[s].tid
           set(row) == [row EXCEPT !.status = req[s].ext,
                                   !.error_message =
                                       IF req[s].ext = "failed" THEN "run_error" ELSE @]
       IN  mappings' = UpdateWhere(mappings, me, set)
    /\ Respond(s, StatusBody(s, req[s].ext), FALSE)
    /\ UNCHANGED <<tasks, storybooks, pagesTbl, links, rl, jobs,
                   started, ids, faults, now, callers, lanes, limit, admitted, reader, parser>>

\* updateSunaTaskStatus throws: the inner catch logs the error and the task
\* object, not yet changed, is answered.
StatusUpdateMappingError(s) ==
    /\ At(s, "status", "t_upd_map")
    /\ MayFault
    /\ faults' = faults + 1
    /\ Respond(s, StatusBody(s, req[s].st), TRUE)
    /\ UNCHANGED <<tasks, mappings, storybooks, pagesTbl, links, rl, jobs,
                   started, ids, now, callers, lanes, limit, admitted, reader, parser>>

\* --------------------------------------------------- GET /api/suna/result
\* Faulty variant: only a pending task is turned away.
NotCompleted_OnlyPending(status) == status = "pending"

\* if (task.status !== 'completed')
NotCompleted(status) == status # "completed"

\* The select of the caller's task; a task that is not completed is answered
\* with its status and a message.
ResultSelectTask(s) ==
    /\ At(s, "result", "r_select")
    /\ LET found == OwnTask(req[s].tid, req[s].user)
       IN  IF Len(found) # 1
           THEN TaskNotFound(s)
           ELSE IF NotCompleted(found[1].status)
           THEN Respond(s, [NoResp EXCEPT
                               !.code = 200, !.status = found[1].status,
                               !.task_id = req[s].tid,
                               !.body = IF found[1].status = "processing"
                                        THEN "Task is still processing"
                                        ELSE "Task not completed"], FALSE)
           ELSE /\ req' = [req EXCEPT ![s].pc = "r_map", ![s].st = found[1].status]
                /\ Quiet
    /\ UNCHANGED <<tasks, mappings, storybooks, pagesTbl, links, rl, jobs,
                   started, ids, faults, now, callers, lanes, limit, admitted, reader, parser>>

ResultSelectTaskError(s) ==
    /\ At(s, "result", "r_select")
    /\ MayFault
    /\ faults' = faults + 1
    /\ TaskNotFound(s)
    /\ UNCHANGED <<tasks, mappings, storybooks, pagesTbl, links, rl, jobs,
                   started, ids, now, callers, lanes, limit, admitted, reader, parser>>

\* getSunaTaskMapping: no mapping or no run id is answered 404; a caller
\* without a session token is answered 401.
ResultGetMapping(s) ==
    /\ At(s, "result", "r_map")
    /\ LET found == MappingOf(req[s].tid)
       IN  IF Len(found) # 1 \/ found[1].run = NoId
           THEN Respond(s, [NoResp EXCEPT !.code = 404,
                                          !.body = "Task mapping not found"], TRUE)
           ELSE IF req[s].cred # "ok"
           THEN Respond(s, [NoResp EXCEPT !.code = 401,
                                          !.body = "No valid session"], FALSE)
           ELSE /\ req' = [req EXCEPT ![s].pc = "r_stream", ![s].run = found[1].run,
                                      ![s].thread = found[1].thread]
                /\ Quiet
    /\ UNCHANGED <<tasks, mappings, storybooks, pagesTbl, links, rl, jobs,
                   started, ids, faults, now, callers, lanes, limit, admitted, reader, parser>>

ResultGetMappingError(s) ==
    /\ At(s, "result", "r_map")
    /\ MayFault
    /\ faults' = faults + 1
    /\ InternalError(s)
    /\ UNCHANGED <<tasks, mappings, storybooks, pagesTbl, links, rl, jobs,
                   started, ids, now, callers, lanes, limit, admitted, reader, parser>>

\* The stream of a run: the service's stream for its content, nothing for a
\* run that has produced none.
StreamOf(run) ==
    IF run \in DOMAIN jobs /\ jobs[run].content \in DOMAIN Streams
    THEN Streams[jobs[run].content] ELSE <<>>

\* fetch(.../agent-run/<run id>/stream) answers ok and the reader loop runs
\* to the end of the stream; result holds the accumulated text.
ResultReadStream(s) ==
    /\ At(s, "result", "r_stream")
    /\ req' = [req EXCEPT ![s].pc = "r_existing",
                          ![s].raw = ReadStream(StreamOf(req[s].run))]
    /\ UNCHANGED <<tasks, mappings, storybooks, pagesTbl, links, rl, jobs,
                   known, returned, started, ids, faults, now, callers, lanes, limit, admitted, reader, parser>>
    /\ Silent

SunaFetchFailed(s) ==
    Respond(s, [NoResp EXCEPT !.code = 500, !.status = "error",
                              !.task_id = req[s].tid,
                              !.body = "Failed to fetch result from Suna AI"], TRUE)

\* Faulty variant: the text read before the failure is parsed and its title
\* is persisted as a storybook.
ResultStreamFails_KeepsPartial(s) ==
    /\ At(s, "result", "r_stream")
    /\ \E k \in 0..Len(StreamOf(req[s].run)) :
         storybooks' = Append(storybooks,
             [id |-> Len(storybooks) + 1,
              title |-> parseStoryContent(
                            ReadStream(SubSeq(StreamOf(req[s].run), 1, k))).title,
              generation_task_id |-> req[s].tid])
    /\ RespondAs(s, [NoResp EXCEPT !.code = 500, !.status = "error",
                                   !.task_id = req[s].tid,
                                   !.body = "Failed to fetch result from Suna AI"],
                 TRUE, "stream_error")
    /\ UNCHANGED <<tasks, mappings, pagesTbl, links, rl, jobs,
                   started, ids, faults, now, callers, lanes, limit, admitted, reader, parser>>

\* The stream request is answered with a non-success code, or reader.read()
\* throws after any number of buffers: result is a local of the try block and
\* is dropped, the inner catch logs the error and answers 500.
ResultStreamFails(s) ==
    /\ At(s, "result", "r_stream")
    /\ RespondAs(s, [NoResp EXCEPT !.code = 500, !.status = "error",
                                   !.task_id = req[s].tid,
                                   !.body = "Failed to fetch result from Suna AI"],
                 TRUE, "stream_error")
    /\ UNCHANGED <<tasks, mappings, storybooks, pagesTbl, links, rl, jobs,
                   started, ids, faults, now, callers, lanes, limit, admitted, reader, parser>>

BooksOf(tid) ==
    LET mine(row) == row.generation_task_id = tid IN Matching(storybooks, mine)
PagesOf(sb) ==
    {[page_number |-> row.page_number, content |-> row.content,
      image_description |-> row.image_description] :
        row \in {pagesTbl[i] : i \in {k \in DOMAIN pagesTbl : pagesTbl[k].storybook_id = sb}}}
\* A storybook row with its storybook_pages rows.
BookDoc(row) == [title |-> row.title, pages |-> PagesOf(row.id)]

\* Faulty variant: the existing storybook is never recognised.
StorybookExists_Never(existing) == FALSE

\* if (existingStorybook): .single() gave a row
StorybookExists(existing) == Len(existing) = 1

\* Faulty variant: a story without a title is persisted.
Persistable_PagesOnly(storyData) == Len(storyData.pages) > 0

\* if (storyData.title && storyData.pages.length > 0)
Persistable(storyData) == storyData.title # <<>> /\ Len(storyData.pages) > 0

\* The select of the storybook of this task (.single()): an existing one is
\* answered; else the parsed story is persisted if it has a title and pages,
\* and the raw text is answered with a parse error if it has not.
ResultSelectExisting(s) ==
    /\ At(s, "result", "r_existing")
    /\ LET existing == BooksOf(req[s].tid)
           storyData == parseStoryContent(req[s].raw)
       IN  IF StorybookExists(existing)
           THEN RespondAs(s, [NoResp EXCEPT !.code = 200, !.status = "completed",
                                            !.task_id = req[s].tid, !.body = "storybook",
                                            !.doc = BookDoc(existing[1]),
                                            !.raw = req[s].raw], FALSE, "existing")
           ELSE IF Persistable(storyData)
           THEN Goto(s, "r_insert_sb") /\ Quiet
           ELSE Respond(s, [NoResp EXCEPT !.code = 200, !.status = "completed",
                                          !.task_id = req[s].tid,
                                          !.body = "Failed to parse story content",
                                          !.raw = req[s].raw], FALSE)
    /\ UNCHANGED <<tasks, mappings, storybooks, pagesTbl, links, rl, jobs,
                   started, ids, faults, now, callers, lanes, limit, admitted, reader, parser>>

\* The select of the existing storybook fails: the handler reads data only,
\* which is then null, and goes on as if the task had no storybook.
ResultSelectExistingError(s) ==
    /\ At(s, "result", "r_existing")
    /\ MayFault
    /\ faults' = faults + 1
    /\ IF Persistable(parseStoryContent(req[s].raw))
       THEN Goto(s, "r_insert_sb") /\ Quiet
       ELSE Respond(s, [NoResp EXCEPT !.code = 200, !.status = "completed",
                                      !.task_id = req[s].tid,
                                      !.body = "Failed to parse story content",
                                      !.raw = req[s].raw], FALSE)
    /\ UNCHANGED <<tasks, mappings, storybooks, pagesTbl, links, rl, jobs,
                   started, ids, now, callers, lanes, limit, admitted, reader, parser>>

\* Faulty variant: the table accepts a second storybook for a task.
UniqueTaskId_Unchecked(tbl, tid) == TRUE

\* The storybooks table is unique on generation_task_id: an insert is
\* accepted only while the task has no storybook row.
UniqueTaskId(tbl, tid) ==
    \A i \in DOMAIN tbl : tbl[i].generation_task_id # tid

\* insert into storybooks ... .select().single()
ResultInsertStorybook(s) ==
    /\ At(s, "result", "r_insert_sb")
    /\ UniqueTaskId(storybooks, req[s].tid)
    /\ LET id == Len(storybooks) + 1
       IN  /\ storybooks' = Append(storybooks,
                  [id |-> id, title |-> parseStoryContent(req[s].raw).title,
                   generation_task_id |-> req[s].tid])
           /\ req' = [req EXCEPT ![s].pc = "r_insert_pages", ![s].sb = id]
    /\ UNCHANGED <<tasks, mappings, pagesTbl, links, rl, jobs,
                   known, returned, started, ids, faults, now, callers, lanes, limit, admitted, reader, parser>>
    /\ Silent

\* storybookError: thrown to the inner catch.
ResultInsertStorybookError(s) ==
    /\ At(s, "result", "r_insert_sb")
    /\ MayFault
    /\ faults' = faults + 1
    /\ SunaFetchFailed(s)
    /\ UNCHANGED <<tasks, mappings, storybooks, pagesTbl, links, rl, jobs,
                   started, ids, now, callers, lanes, limit, admitted, reader, parser>>

\* The insert loses against the storybook another request has inserted for
\* the task: storybookError is thrown to the inner catch like any other.
ResultInsertStorybookRejected(s) ==
    /\ At(s, "result", "r_insert_sb")
    /\ ~UniqueTaskId(storybooks, req[s].tid)
    /\ RespondAs(s, [NoResp EXCEPT !.code = 500, !.status = "error",
                                   !.task_id = req[s].tid,
                                   !.body = "Failed to fetch result from Suna AI"],
                 TRUE, "duplicate")
    /\ UNCHANGED <<tasks, mappings, storybooks, pagesTbl, links, rl, jobs,
                   started, ids, faults, now, callers, lanes, limit, admitted, reader, parser>>

\* Faulty variant: the rows are numbered by the index, from 0.
PageRows_FromZero(sb, pages) ==
    [i \in DOMAIN pages |->
        [storybook_id |-> sb, page_number |-> i - 1, content |-> pages[i].text,
         image_description |-> pages[i].image]]

\* storyData.pages.map((page, index) => ({page_number: index + 1, ...}))
PageRows(sb, pages) ==
    [i \in DOMAIN pages |->
        [storybook_id |-> sb, page_number |-> i, content |-> pages[i].text,
         image_description |-> pages[i].image]]

\* insert of all page rows in one statement
ResultInsertPages(s) ==
    /\ At(s, "result", "r_insert_pages")
    /\ pagesTbl' = pagesTbl \o PageRows(req[s].sb, parseStoryContent(req[s].raw).pages)
    /\ Goto(s, "r_link")
    /\ UNCHANGED <<tasks, mappings, storybooks, links, rl, jobs,
                   known, returned, started, ids, faults, now, callers, lanes, limit, admitted, reader, parser>>
    /\ Silent

\* pagesError: thrown to the inner catch; the storybook row stays.
ResultInsertPagesError(s) ==
    /\ At(s, "result", "r_insert_pages")
    /\ MayFault
    /\ faults' = faults + 1
    /\ SunaFetchFailed(s)
    /\ UNCHANGED <<tasks, mappings, storybooks, pagesTbl, links, rl, jobs,
                   started, ids, now, callers, lanes, limit, admitted, reader, parser>>

\* insert into user_storybooks, the request log and the 200 response with
\* the new storybook row and the page rows just inserted.
ResultLinkAndRespond(s) ==
    /\ At(s, "result", "r_link")
    /\ links' = Append(links, [user_id |-> req[s].user, storybook_id |-> req[s].sb])
    /\ LET storyData == parseStoryContent(req[s].raw)
           newPages == PageRows(req[s].sb, storyData.pages)
       IN  RespondAs(s, [NoResp EXCEPT
                          !.code = 200, !.status = "completed",
                          !.task_id = req[s].tid, !.body = "storybook",
                          !.doc = [title |-> storyData.title,
                                   pages |-> {[page_number |-> newPages[i].page_number,
                                               content |-> newPages[i].content,
                                               image_description |->
                                                   newPages[i].image_description] :
                                              i \in DOMAIN newPages}],
                          !.raw = req[s].raw], FALSE, "created")
    /\ UNCHANGED <<tasks, mappings, storybooks, pagesTbl, rl, jobs,
                   started, ids, faults, now, callers, lanes, limit, admitted, reader, parser>>

\* ------------------------------------------------- the external agent run
\* The run ends; a terminal status never changes again.  A completed run
\* has a result stream, the same for every reader.
JobEnds(j) ==
    /\ j \in DOMAIN jobs
    /\ jobs[j].status = "running"
    /\ \/ \E c \in DOMAIN Streams :
            jobs' = [jobs EXCEPT ![j].status = "completed", ![j].content = c]
       \/ jobs' = [jobs EXCEPT ![j].status = "failed"]
    /\ UNCHANGED <<tasks, mappings, storybooks, pagesTbl, links, rl, req,
                   known, returned, started, ids, faults, now, callers, lanes, limit, admitted, reader, parser>>
    /\ Silent

\* --------------------------------------------------------- specification
RateRow(user, kind, count) ==
    [user_id |-> user, endpoint |-> Endpoint(kind),
     request_count |-> count, window_start |-> 0, max_requests |-> Ceiling(kind)]

\* The stores start empty.  The rate table is empty, or holds for every caller
\* and endpoint a window that has reached its ceiling (requests that ended
\* before any row was created, such as submits without a session token).
Init ==
    /\ tasks = <<>> /\ mappings = <<>> /\ storybooks = <<>>
    /\ pagesTbl = <<>> /\ links = <<>>
    /\ rl \in {{}, {RateRow(u, k, Ceiling(k)) : u \in Users, k \in Kinds}}
    /\ jobs = <<>>
    /\ req = [s \in Slots |-> Idle]
    /\ known = {} /\ out = NoOut /\ returned = {}
    /\ started = 0 /\ ids = 0 /\ faults = 0 /\ now = 0
    /\ callers = Submitters
    /\ lanes = MaxSlots
    /\ limit = 0 /\ admitted = <<>>
    /\ reader = NoReader /\ parser = NoParser

Next ==
    \/ \E s \in Slots :
        \/ Start(s) \/ StartRateLookupError(s) \/ StartDenied(s)
        \/ StartUnauthorized(s) \/ StartNoTaskId(s)
        \/ SubmitNoSession(s)
        \/ SubmitInsertTask(s) \/ SubmitInsertTaskError(s)
        \/ SubmitInsertMapping(s) \/ SubmitInsertMappingError(s)
        \/ SubmitInitiate(s) \/ SubmitInitiateFails(s)
        \/ SubmitUpdateTask(s) \/ SubmitUpdateTaskError(s)
        \/ SubmitUpdateMapping(s) \/ SubmitUpdateMappingError(s)
        \/ SubmitCatchTask(s) \/ SubmitCatchMapping(s) \/ SubmitCatchMappingError(s)
        \/ StatusSelectTask(s) \/ StatusSelectTaskError(s)
        \/ StatusGetMapping(s) \/ StatusGetMappingError(s)
        \/ StatusPoll(s) \/ StatusPollFails(s)
        \/ StatusUpdateTask(s)
        \/ StatusUpdateMapping(s) \/ StatusUpdateMappingError(s)
        \/ ResultSelectTask(s) \/ ResultSelectTaskError(s)
        \/ ResultGetMapping(s) \/ ResultGetMappingError(s)
        \/ ResultReadStream(s) \/ ResultStreamFails(s)
        \/ ResultSelectExisting(s) \/ ResultSelectExistingError(s)
        \/ ResultInsertStorybook(s) \/ ResultInsertStorybookError(s)
        \/ ResultInsertStorybookRejected(s)
        \/ ResultInsertPages(s) \/ ResultInsertPagesError(s)
        \/ ResultLinkAndRespond(s)
    \/ \E j \in 1..MaxTasks : JobEnds(j)

Spec == Init /\ [][Next]_vars

\* The same handlers when every request is answered before the next arrives.
InitSeq ==
    /\ tasks = <<>> /\ mappings = <<>> /\ storybooks = <<>>
    /\ pagesTbl = <<>> /\ links = <<>>
    /\ rl \in {{}, {RateRow(u, k, Ceiling(k)) : u \in Users, k \in Kinds}}
    /\ jobs = <<>>
    /\ req = [s \in Slots |-> Idle]
    /\ known = {} /\ out = NoOut /\ returned = {}
    /\ started = 0 /\ ids = 0 /\ faults = 0 /\ now = 0
    /\ callers = Submitters
    /\ lanes = 1
    /\ limit = 0 /\ admitted = <<>>
    /\ reader = NoReader /\ parser = NoParser
SpecSeq == InitSeq /\ [][Next]_vars

\* The same handlers when a second user, who owns no task, asks for status
\* and result too.
InitOwners ==
    /\ tasks = <<>> /\ mappings = <<>> /\ storybooks = <<>>
    /\ pagesTbl = <<>> /\ links = <<>>
    /\ rl \in {{}, {RateRow(u, k, Ceiling(k)) : u \in Users, k \in Kinds}}
    /\ jobs = <<>>
    /\ req = [s \in Slots |-> Idle]
    /\ known = {} /\ out = NoOut /\ returned = {}
    /\ started = 0 /\ ids = 0 /\ faults = 0 /\ now = 0
    /\ callers = Users
    /\ lanes = MaxSlots
    /\ limit = 0 /\ admitted = <<>>
    /\ reader = NoReader /\ parser = NoParser
SpecOwners == InitOwners /\ [][Next]_vars

\* ------------------------------------------- checkRateLimit, step by step
\* The same function with its awaits apart: the select of the window row,
\* then the update or the insert.  A request is followed up to the return of
\* checkRateLimit; what its handler does afterwards leaves the rate table
\* alone.
RateKinds == {"status", "result"}
HalfWindow == WindowMinutes \div 2
TickSteps == {HalfWindow, HalfWindow + 1}

Admission(s) == [user_id |-> req[s].user, endpoint |-> Endpoint(req[s].kind), at |-> now]

\* return true: the handler goes on to its body.
RateAllowed(s, ext) ==
    /\ req' = [req EXCEPT ![s] = Idle]
    /\ out' = [NoOut EXCEPT !.kind = req[s].kind, !.user = req[s].user, !.ext = ext]
    /\ admitted' = Append(admitted, Admission(s))
    /\ UNCHANGED <<known, returned>>

\* A request arrives and its handler calls checkRateLimit, which computes the
\* start of the trailing window from the time of the call.
RateCall(s) ==
    /\ LowestFree(s) /\ started < MaxCalls
    /\ \E kind \in RateKinds, user \in callers :
         req' = [req EXCEPT ![s] = [Idle EXCEPT !.kind = kind, !.user = user,
                                                !.cred = "ok", !.pc = "rl_lookup",
                                                !.calledAt = now]]
    /\ started' = started + 1
    /\ UNCHANGED <<tasks, mappings, storybooks, pagesTbl, links, rl, jobs,
                   known, returned, ids, faults, now, callers, lanes, limit, admitted, reader, parser>>
    /\ Silent

\* Faulty variant: the denied request is counted too.
RateLookup_CountsDenied(s) ==
    /\ req[s].pc = "rl_lookup"
    /\ LET user == req[s].user
           endpoint == Endpoint(req[s].kind)
           row == Existing(rl, user, endpoint, req[s].calledAt)
       IN  IF HasExisting(rl, user, endpoint, req[s].calledAt)
           THEN IF AtCeiling(row, limit)
                THEN /\ RespondAs(s, [NoResp EXCEPT !.code = 429,
                                                    !.body = "Rate limit exceeded"],
                                  req[s].kind = "submit", "denied")
                     /\ rl' = RateUpdated(rl, user, endpoint, row.window_start,
                                          row.request_count)
                ELSE /\ req' = [req EXCEPT ![s].pc = "rl_update", ![s].seen = {row}]
                     /\ Quiet /\ rl' = rl
           ELSE Goto(s, "rl_insert") /\ Quiet /\ rl' = rl
    /\ UNCHANGED <<tasks, mappings, storybooks, pagesTbl, links, jobs,
                   started, ids, faults, now, callers, lanes, limit, admitted,
                   reader, parser>>

\* select ... .gte('window_start', windowStart).single(), and the test of the
\* count: a full window is answered 429 without a write.
RateLookup(s) ==
    /\ req[s].pc = "rl_lookup"
    /\ LET user == req[s].user
           endpoint == Endpoint(req[s].kind)
       IN  IF HasExisting(rl, user, endpoint, req[s].calledAt)
           THEN IF AtCeiling(Existing(rl, user, endpoint, req[s].calledAt), limit)
                THEN RespondAs(s, [NoResp EXCEPT !.code = 429,
                                                 !.body = "Rate limit exceeded"],
                               req[s].kind = "submit", "denied")
                ELSE /\ req' = [req EXCEPT
                                  ![s].pc = "rl_update",
                                  ![s].seen = {Existing(rl, user, endpoint, req[s].calledAt)}]
                     /\ Quiet
           ELSE Goto(s, "rl_insert") /\ Quiet
    /\ UNCHANGED <<tasks, mappings, storybooks, pagesTbl, links, rl, jobs,
                   started, ids, faults, now, callers, lanes, limit, admitted, reader, parser>>

\* Faulty variant: a failed lookup turns the request away.
RateLookupError_FailClosed(s) ==
    /\ req[s].pc = "rl_lookup"
    /\ MayFault
    /\ faults' = faults + 1
    /\ RespondAs(s, [NoResp EXCEPT !.code = 429, !.body = "Rate limit exceeded"],
                 FALSE, "denied")
    /\ UNCHANGED <<tasks, mappings, storybooks, pagesTbl, links, rl, jobs,
                   started, ids, now, callers, lanes, limit, admitted, reader, parser>>

\* fetchError other than PGRST116: return true without a write.
RateLookupError(s) ==
    /\ req[s].pc = "rl_lookup"
    /\ MayFault
    /\ faults' = faults + 1
    /\ RateAllowed(s, "lookup_error")
    /\ UNCHANGED <<tasks, mappings, storybooks, pagesTbl, links, rl, jobs,
                   started, ids, now, callers, lanes, limit, reader, parser>>

\* update({request_count: existing.request_count + 1}).eq('id', existing.id)
RateUpdate(s) ==
    /\ req[s].pc = "rl_update"
    /\ \E row \in req[s].seen :
         rl' = RateUpdated(rl, row.user_id, row.endpoint, row.window_start,
                           row.request_count)
    /\ RateAllowed(s, "counted")
    /\ UNCHANGED <<tasks, mappings, storybooks, pagesTbl, links, jobs,
                   started, ids, faults, now, callers, lanes, limit, reader, parser>>

\* insert({request_count: 1, window_start: new Date(), ...})
RateInsert(s) ==
    /\ req[s].pc = "rl_insert"
    /\ rl' = RateInserted(rl, req[s].user, Endpoint(req[s].kind), limit, now)
    /\ RateAllowed(s, "opened")
    /\ UNCHANGED <<tasks, mappings, storybooks, pagesTbl, links, jobs,
                   started, ids, faults, now, callers, lanes, limit, reader, parser>>

\* Time passes.  Callers that send one request at a time see no time pass
\* within a request.
Tick ==
    /\ \E d \in TickSteps : now + d <= MaxTime /\ now' = now + d
    /\ lanes = 1 => \A s \in Slots : req[s].pc = "idle"
    /\ UNCHANGED <<tasks, mappings, storybooks, pagesTbl, links, rl, jobs, req,
                   known, returned, started, ids, faults, callers, lanes, limit,
                   admitted, reader, parser>>
    /\ Silent

InitRLSeq ==
    /\ tasks = <<>> /\ mappings = <<>> /\ storybooks = <<>>
    /\ pagesTbl = <<>> /\ links = <<>>
    /\ rl = {}
    /\ jobs = <<>>
    /\ req = [s \in Slots |-> Idle]
    /\ known = {} /\ out = NoOut /\ returned = {}
    /\ started = 0 /\ ids = 0 /\ faults = 0 /\ now = 0
    /\ callers = Submitters
    /\ lanes = 1
    /\ limit \in 1..MaxCeiling /\ admitted = <<>>
    /\ reader = NoReader /\ parser = NoParser

NextRL ==
    \/ \E s \in Slots :
        \/ RateCall(s)
        \/ RateLookup(s) \/ RateLookupError(s)
        \/ RateUpdate(s) \/ RateInsert(s)
    \/ Tick

SpecRLSeq == InitRLSeq /\ [][NextRL]_vars

\* The same calls when the user sends them one at a time or up to MaxSlots at
\* a time; with several in flight, time may pass between the steps of a call.
InitRL ==
    /\ tasks = <<>> /\ mappings = <<>> /\ storybooks = <<>>
    /\ pagesTbl = <<>> /\ links = <<>>
    /\ rl = {}
    /\ jobs = <<>>
    /\ req = [s \in Slots |-> Idle]
    /\ known = {} /\ out = NoOut /\ returned = {}
    /\ started = 0 /\ ids = 0 /\ faults = 0 /\ now = 0
    /\ callers = Submitters
    /\ lanes \in {1, MaxSlots}
    /\ limit \in 1..MaxCeiling /\ admitted = <<>>
    /\ reader = NoReader /\ parser = NoParser
SpecRL == InitRL /\ [][NextRL]_vars

\* ------------------------------------------------- the reader loop by itself
\* The reader loop of the result handler on streams of up to MaxLines lines,
\* each read returning as many of the bytes left as the transport happens to
\* deliver.
EventLines ==
    {<<DataPrefix, "J1">>, <<DataPrefix, "J2">>,   \* assistant messages
     <<DataPrefix, "J3">>,                         \* a message of the user
     <<DataPrefix, "J4">>,                         \* not of type message
     <<DataPrefix, "J6">>,                         \* a message with no content
     <<DataPrefix, "bad">>,                        \* a payload that is not JSON
     <<":", "x">>,                                 \* a comment
     <<>>}                                         \* an empty line
LineSeqs == UNION {[1..n -> EventLines] : n \in 1..MaxLines}
\* The bytes of a stream: every line followed by a line feed.
Wire(lines) == Concat([i \in DOMAIN lines |-> lines[i] \o <<NL>>])

\* reader.read() returns a buffer; its lines are added to the result. split
\* records that some buffer ended inside a line.
ReaderRead ==
    /\ reader.pc = "reading" /\ reader.wire # <<>>
    /\ \E n \in 1..Len(reader.wire) :
         reader' = [reader EXCEPT
                       !.wire = SubSeq(reader.wire, n + 1, Len(reader.wire)),
                       !.result = reader.result
                                  \o ChunkContent(SubSeq(reader.wire, 1, n)),
                       !.split = reader.split \/ reader.wire[n] # NL]
    /\ UNCHANGED <<tasks, mappings, storybooks, pagesTbl, links, rl, jobs, req,
                   known, out, returned, started, ids, faults, now, callers,
                   lanes, limit, admitted, parser>>

\* reader.read() reports done: the loop ends.
ReaderDone ==
    /\ reader.pc = "reading" /\ reader.wire = <<>>
    /\ reader' = [reader EXCEPT !.pc = "done"]
    /\ UNCHANGED <<tasks, mappings, storybooks, pagesTbl, links, rl, jobs, req,
                   known, out, returned, started, ids, faults, now, callers,
                   lanes, limit, admitted, parser>>

InitReader ==
    /\ tasks = <<>> /\ mappings = <<>> /\ storybooks = <<>>
    /\ pagesTbl = <<>> /\ links = <<>> /\ rl = {}
    /\ jobs = <<>>
    /\ req = [s \in Slots |-> Idle]
    /\ known = {} /\ out = NoOut /\ returned = {}
    /\ started = 0 /\ ids = 0 /\ faults = 0 /\ now = 0
    /\ callers = Submitters /\ lanes = 1
    /\ limit = 0 /\ admitted = <<>>
    /\ \E lines \in LineSeqs :
         reader = [pc |-> "reading", lines |-> lines, wire |-> Wire(lines),
                   result |-> <<>>, split |-> FALSE]
    /\ parser = NoParser
NextReader == ReaderRead \/ ReaderDone
SpecReader == InitReader /\ [][NextReader]_vars

\* -------------------------------------------- parseStoryContent by itself
\* parseStoryContent on every text of up to MaxStory lines made of title
\* lines, page headers, text and image lines, and lines of no kind.
StoryLines ==
    {TitleMarker \o <<" ", "a">>,                 \* a title
     <<" ">> \o TitleMarker \o <<"z">>,            \* another title, indented
     <<"di", "1", "ye", ":">>,                    \* a page header
     <<" ", "di", "2", "ye", " ">>,               \* a page header without colon
     TextMarker \o <<"b">>,                       \* a text
     TextMarker \o <<" ", "d", " ">>,             \* another text
     TextMarker \o <<" ">>,                       \* a text marker with no text
     ImageMarker \o <<"c">>,                      \* an image
     <<"x">>}                                     \* a line of no kind
StoryTexts == UNION {[1..n -> StoryLines] : n \in 1..MaxStory}
\* The text passed to the parser: the lines, each ended by a line feed.
TextOf(lines) == Concat([i \in DOMAIN lines |-> lines[i] \o <<NL>>])

\* const storyData = parseStoryContent(result)
ParserReturn ==
    /\ parser.pc = "called"
    /\ parser' = [parser EXCEPT !.pc = "returned",
                                !.ret = parseStoryContent(TextOf(parser.lines))]
    /\ UNCHANGED <<tasks, mappings, storybooks, pagesTbl, links, rl, jobs, req,
                   known, out, returned, started, ids, faults, now, callers,
                   lanes, limit, admitted, reader>>

\* if (storyData.title && storyData.pages.length > 0): the page rows of the
\* new storybook are built from storyData.pages and inserted.
ParserInsertPages ==
    /\ parser.pc = "returned"
    /\ Persistable(parser.ret)
    /\ pagesTbl' = pagesTbl \o PageRows(1, parser.ret.pages)
    /\ parser' = [parser EXCEPT !.pc = "persisted"]
    /\ UNCHANGED <<tasks, mappings, storybooks, links, rl, jobs, req,
                   known, out, returned, started, ids, faults, now, callers,
                   lanes, limit, admitted, reader>>

InitParser ==
    /\ tasks = <<>> /\ mappings = <<>> /\ storybooks = <<>>
    /\ pagesTbl = <<>> /\ links = <<>> /\ rl = {}
    /\ jobs = <<>>
    /\ req = [s \in Slots |-> Idle]
    /\ known = {} /\ out = NoOut /\ returned = {}
    /\ started = 0 /\ ids = 0 /\ faults = 0 /\ now = 0
    /\ callers = Submitters /\ lanes = 1
    /\ limit = 0 /\ admitted = <<>>
    /\ reader = NoReader
    /\ \E lines \in StoryTexts :
         parser = [NoParser EXCEPT !.pc = "called", !.lines = lines]
NextParser == ParserReturn \/ ParserInsertPages
SpecParser == InitParser /\ [][NextParser]_vars

\* ================================================================== claims
StatusOf(tid) == TaskOf(tid)[1].status
BooksIn(tbl, tid) ==
    LET mine(row) == row.generation_task_id = tid IN SelectSeq(tbl, mine)
PagesIn(tbl, books) ==
    LET theirs(row) == \E i \in DOMAIN books : books[i].id = row.storybook_id
    IN  SelectSeq(tbl, theirs)
SubmitAnswered == out.kind = "submit"
InitiatedFor(tid) == {j \in DOMAIN jobs : jobs[j].task = tid}

\* C1: every change of a task's stored status is pending->processing,
\* pending->failed, processing->completed or processing->failed; a new row
\* starts as pending and a completed or failed task never changes status.
AllowedMoves ==
    {<<"pending", "processing">>, <<"pending", "failed">>,
     <<"processing", "completed">>, <<"processing", "failed">>}
C1_StatusMoves ==
    [][/\ \A i \in DOMAIN tasks :
            /\ i \in DOMAIN tasks'
            /\ tasks'[i].id = tasks[i].id
            /\ tasks'[i].status # tasks[i].status
                 => <<tasks[i].status, tasks'[i].status>> \in AllowedMoves
       /\ \A i \in DOMAIN tasks' \ DOMAIN tasks : tasks'[i].status = "pending"]_vars
C1_Witness ==
    /\ out.kind = "status" /\ out.resp.status = "completed"
    /\ Len(TaskOf(out.tid)) = 1 /\ StatusOf(out.tid) = "completed"

\* C2 as stated: every submit that passes authentication and rate limiting
\* has, when it is answered, exactly one task row and exactly one mapping row
\* for its task id.
C2_Original ==
    (SubmitAnswered /\ out.resp.code \notin {401, 429})
        => Len(TaskOf(out.tid)) = 1 /\ Len(MappingOf(out.tid)) = 1

\* C3 as stated: when the initiate call of a submit succeeded, then at the
\* time the submit is answered the task and the mapping are both stored as
\* processing and the mapping holds the thread id and run id that initiate
\* returned, which are the ids in the answer.
C3_Original ==
    \A j \in DOMAIN jobs :
        (SubmitAnswered /\ jobs[j].task = out.tid)
            => /\ Len(TaskOf(out.tid)) = 1 /\ StatusOf(out.tid) = "processing"
               /\ Len(MappingOf(out.tid)) = 1
               /\ MappingOf(out.tid)[1].status = "processing"
               /\ MappingOf(out.tid)[1].run = j
               /\ MappingOf(out.tid)[1].thread = ThreadIdOf(j)
               /\ out.resp.run = j /\ out.resp.thread = ThreadIdOf(j)

\* C4 as stated: when the initiate call of a submit failed, the task and the
\* mapping are both stored as failed with the error text and the answer
\* carries the task id with status failed.
C4_Original ==
    (SubmitAnswered /\ out.ext = "initiate_error")
        => /\ Len(TaskOf(out.tid)) = 1 /\ StatusOf(out.tid) = "failed"
           /\ TaskOf(out.tid)[1].error_message = "initiate_error"
           /\ Len(MappingOf(out.tid)) = 1
           /\ MappingOf(out.tid)[1].status = "failed"
           /\ MappingOf(out.tid)[1].error_message = "initiate_error"
           /\ out.resp.task_id = out.tid /\ out.resp.status = "failed"

\* C5 as stated: when a status check polled a terminal status, the stored
\* task status and the stored mapping status both equal it when the check is
\* answered.
C5_Original ==
    (out.kind = "status" /\ out.ext \in {"completed", "failed"})
        => /\ StatusOf(out.tid) = out.ext
           /\ MappingOf(out.tid)[1].status = out.ext

\* C6: a status check whose poll reports running, is answered with a
\* non-success code or throws answers with the status processing, writes
\* neither the task table nor the mapping table and so never marks the task
\* failed.
C6_PollLeavesState ==
    [][\A s \in Slots :
          (At(s, "status", "t_poll") /\ req'[s].pc = "idle"
              /\ out'.ext \in {"running", "poll_not_ok", "poll_error"})
            => /\ tasks' = tasks
               /\ mappings' = mappings
               /\ out'.resp.status = "processing"
               /\ out'.resp.code = 200]_vars
C6_Inflight ==
    \A s \in Slots :
        (req[s].kind = "status" /\ req[s].pc = "t_poll")
            => req[s].st = "processing" /\ req[s].ext = "none"
C6_NoWriteOnPoll == []C6_Inflight /\ C6_PollLeavesState
C6_Witness ==
    /\ out.kind = "status" /\ out.ext = "poll_error"
    /\ out.resp.status = "processing"
    /\ StatusOf(out.tid) = "processing"
    /\ MappingOf(out.tid)[1].status = "processing"

\* C7 as stated: a task is failed only if the initiate call of its submit
\* failed (no run was started for it) or its run reported failed to a status
\* check.
C7_Original ==
    \A i \in DOMAIN tasks :
        tasks[i].status = "failed"
            => \/ InitiatedFor(tasks[i].id) = {}
               \/ \E j \in InitiatedFor(tasks[i].id) : jobs[j].reported = "failed"

\* C8: a result fetch that finds the task not completed answers with the
\* stored status and a message and writes nothing; only a request whose task
\* is completed goes on to the mapping, the stream and the storybook tables.
C8_Answer ==
    [][\A s \in Slots :
          (At(s, "result", "r_select") /\ req'[s].pc = "idle"
              /\ Len(OwnTask(req[s].tid, req[s].user)) = 1
              /\ StatusOf(req[s].tid) # "completed" /\ out'.resp.code # 404)
            => /\ out'.resp.code = 200
               /\ out'.resp.status = StatusOf(req[s].tid)
               /\ out'.resp.body \in {"Task is still processing", "Task not completed"}
               /\ out'.resp.doc = NoDoc /\ out'.resp.raw = <<>>
               /\ UNCHANGED <<tasks, mappings, storybooks, pagesTbl, links>>]_vars
C8_OnlyCompletedGoesOn ==
    \A s \in Slots :
        (req[s].kind = "result" /\ req[s].pc \notin {"idle", "r_select"})
            => Len(TaskOf(req[s].tid)) = 1 /\ StatusOf(req[s].tid) = "completed"
C8_NotCompleted == []C8_OnlyCompletedGoesOn /\ C8_Answer
C8_Witness ==
    /\ out.kind = "result" /\ out.resp.status = "processing"
    /\ out.resp.body = "Task is still processing"
    /\ StatusOf(out.tid) = "processing"

\* C9 as stated: when a storybook exists for the task, a result fetch does
\* not open the result stream (the existence check comes first).
C9_Original ==
    [][\A s \in Slots :
          (At(s, "result", "r_stream") /\ req'[s].pc = "r_existing")
            => Len(BooksOf(req[s].tid)) = 0]_vars

\* C10: result fetches made one after the other for a completed task carry
\* the same document (title and numbered pages), and once a document has
\* been returned for a task no storybook row and no page row is added or
\* changed for it: a later fetch that reads the storybooks table answers
\* with that document.
C10_OneDocument ==
    \A p \in returned, q \in returned : p[1] = q[1] => p[2] = q[2]
C10_NoNewRows ==
    [][\A p \in returned :
          /\ BooksIn(storybooks', p[1]) = BooksIn(storybooks, p[1])
          /\ PagesIn(pagesTbl', BooksIn(storybooks, p[1]))
                = PagesIn(pagesTbl, BooksIn(storybooks, p[1]))]_vars
C10_SecondFetch ==
    [][\A s \in Slots : \A p \in returned :
          (/\ At(s, "result", "r_existing") /\ req[s].tid = p[1]
           /\ req'[s] # req[s] /\ faults' = faults)
            => /\ req'[s].pc = "idle"
               /\ out'.resp.code = 200 /\ out'.resp.body = "storybook"
               /\ out'.resp.doc = p[2]]_vars
C11_OneStorybook ==
    \A tid \in 1..ids : Len(BooksOf(tid)) <= 1
C11_Witness ==
    /\ out.kind = "result" /\ out.ext = "duplicate"
    /\ Len(BooksOf(out.tid)) = 1

\* C12 as stated: a result fetch whose storybook insert is rejected because a
\* concurrent fetch persisted the storybook first does not answer with an
\* error; it answers 200 with the stored document.
C12_Original ==
    (out.kind = "result" /\ out.ext = "duplicate")
        => /\ out.resp.code = 200
           /\ out.resp.body = "storybook"
           /\ Len(BooksOf(out.tid)) = 1
           /\ out.resp.doc.title = BooksOf(out.tid)[1].title

\* C13: a result fetch inserts a storybook row and page rows only when the
\* accumulated text parses into a non-empty title and at least one page; a
\* fetch whose text does not, and whose task has no storybook, answers 200
\* with the accumulated text and the parse error and writes no row.
HasTitleAndPage(raw) ==
    /\ parseStoryContent(raw).title # <<>>
    /\ parseStoryContent(raw).pages # <<>>
C13_Writers ==
    \A s \in Slots :
        (req[s].kind = "result" /\ req[s].pc \in {"r_insert_sb", "r_insert_pages", "r_link"})
            => HasTitleAndPage(req[s].raw)
C13_Steps ==
    [][/\ storybooks' # storybooks
            => \E s \in Slots :
                 /\ At(s, "result", "r_insert_sb") /\ HasTitleAndPage(req[s].raw)
                 /\ storybooks' = Append(storybooks, storybooks'[Len(storybooks')])
                 /\ storybooks'[Len(storybooks')].title = parseStoryContent(req[s].raw).title
       /\ pagesTbl' # pagesTbl
            => \E s \in Slots :
                 At(s, "result", "r_insert_pages") /\ HasTitleAndPage(req[s].raw)
       /\ \A s \in Slots :
            (At(s, "result", "r_existing") /\ req'[s].pc = "idle"
                /\ ~HasTitleAndPage(req[s].raw) /\ Len(BooksOf(req[s].tid)) = 0)
              => /\ out'.resp.code = 200
                 /\ out'.resp.body = "Failed to parse story content"
                 /\ out'.resp.raw = req[s].raw
                 /\ out'.resp.doc = NoDoc
                 /\ UNCHANGED <<storybooks, pagesTbl, links>>]_vars
C13_ParseGate == []C13_Writers /\ C13_Steps
C13_Witness ==
    /\ out.kind = "result" /\ out.resp.body = "Failed to parse story content"
    /\ out.resp.raw # <<>> /\ ~HasTitleAndPage(out.resp.raw)
    /\ storybooks = <<>> /\ pagesTbl = <<>>

\* C14 as stated: a storybook and its pages are persisted as one unit: no
\* storybook row is without its pages once the request that inserted it is
\* past its page insert, also when that insert failed, and no result fetch
\* answers with a storybook that has no pages.
C14_Original ==
    /\ \A i \in DOMAIN storybooks :
        (\A s \in Slots : ~(req[s].pc = "r_insert_pages" /\ req[s].sb = storybooks[i].id))
            => PagesOf(storybooks[i].id) # {}
    /\ (out.kind = "result" /\ out.resp.body = "storybook")
            => out.resp.doc.pages # {}

\* The windows as the admissions themselves define them: the first admitted
\* request opens a window at its time, the window covers one window length,
\* and the first request admitted after it opens the next.
AdmissionsOf(log, user, endpoint) ==
    LET mine(a) == a.user_id = user /\ a.endpoint = endpoint IN SelectSeq(log, mine)
RECURSIVE LastOpened(_, _)
LastOpened(log, start) ==
    IF log = <<>> THEN start
    ELSE LastOpened(Tail(log),
                    IF start < 0 \/ Head(log).at > start + WindowMinutes
                    THEN Head(log).at ELSE start)
\* The requests already admitted in the window that covers time t.
AdmittedInWindow(log, user, endpoint, t) ==
    LET mine == AdmissionsOf(log, user, endpoint)
        start == LastOpened(mine, -1)
    IN  IF start < 0 \/ t > start + WindowMinutes THEN 0
        ELSE Cardinality({i \in DOMAIN mine : mine[i].at >= start})
Returns(s) == req[s].pc \in {"rl_lookup", "rl_update", "rl_insert"} /\ req'[s].pc = "idle"

\* C15: with requests one after the other and no storage error, a request is
\* allowed when fewer than ceiling requests were admitted in its window and
\* denied when ceiling were: the first c are allowed, the (c+1)-th is denied.
C15_CeilingInWindow ==
    [][\A s \in Slots :
          (Returns(s) /\ faults' = 0)
            => LET n == AdmittedInWindow(admitted, req[s].user,
                                         Endpoint(req[s].kind), now)
               IN  /\ n < limit => /\ out'.ext \in {"counted", "opened"}
                                   /\ admitted' = Append(admitted, Admission(s))
                   /\ n >= limit => /\ n = limit
                                    /\ out'.ext = "denied" /\ out'.resp.code = 429
                                    /\ admitted' = admitted]_vars
C15_Witness ==
    /\ out.ext = "denied" /\ faults = 0 /\ limit = MaxCeiling
    /\ AdmittedInWindow(admitted, out.user, Endpoint(out.kind), now) = limit

\* C16: when every window row of the user and operation started more than
\* one window length ago and the last of them reached the ceiling, the next
\* request is allowed and adds a row with count 1 that starts now; the rows
\* that were there are unchanged.
RowsOf(rows, user, endpoint) ==
    {row \in rows : row.user_id = user /\ row.endpoint = endpoint}
C16_NewWindow ==
    [][\A s \in Slots :
          LET mine == RowsOf(rl, req[s].user, Endpoint(req[s].kind))
          IN  (/\ Returns(s) /\ faults' = faults
               /\ \A row \in mine : row.window_start + WindowMinutes < now
               /\ \E row \in mine : row.request_count >= limit)
                => /\ out'.ext = "opened"
                   /\ admitted' = Append(admitted, Admission(s))
                   /\ rl \subseteq rl'
                   /\ rl' \ rl = {[user_id |-> req[s].user,
                                   endpoint |-> Endpoint(req[s].kind),
                                   request_count |-> 1, window_start |-> now,
                                   max_requests |-> limit]}]_vars
C16_Witness ==
    /\ out.ext = "opened"
    /\ \E old \in RowsOf(rl, out.user, Endpoint(out.kind)) :
         /\ old.window_start + WindowMinutes < now
         /\ old.request_count = limit
    /\ \E new \in RowsOf(rl, out.user, Endpoint(out.kind)) :
         new.window_start = now /\ new.request_count = 1

\* C17: when the lookup of the window row fails with a storage error,
\* checkRateLimit allows the request and writes nothing to the rate table,
\* also when the window is full.
C17_FailOpen ==
    [][\A s \in Slots :
          (req[s].pc = "rl_lookup" /\ faults' # faults)
            => /\ req'[s].pc = "idle"
               /\ out'.ext = "lookup_error" /\ out'.resp.code # 429
               /\ admitted' = Append(admitted, Admission(s))
               /\ rl' = rl]_vars
C17_Witness ==
    /\ out.ext = "lookup_error"
    /\ Len(admitted) = limit + 1
    /\ AdmittedInWindow(admitted, out.user, Endpoint(out.kind), now) = limit + 1
    /\ \E row \in WindowRows(rl, out.user, Endpoint(out.kind), now) :
         row.request_count = limit

\* C18: a status or result request for a task that belongs to another user
\* is answered exactly as a request for an id that no task has (404 'Task
\* not found', nothing else in the body), and like it writes nothing to the
\* task, mapping, storybook, page and link tables.
HasTask(tid) == \E i \in DOMAIN tasks : tasks[i].id = tid
Mine(tid, user) == \E i \in DOMAIN tasks : tasks[i].id = tid /\ tasks[i].user_id = user
Selects(s) ==
    /\ req[s].kind \in {"status", "result"}
    /\ req[s].pc \in {"t_select", "r_select"}
    /\ req'[s] # req[s]
NotFoundAnswer == [NoResp EXCEPT !.code = 404, !.body = "Task not found"]
C18_ForeignAsMissing ==
    [][\A s \in Slots :
          (Selects(s) /\ ~Mine(req[s].tid, req[s].user))
            => /\ req'[s].pc = "idle"
               /\ out'.resp = NotFoundAnswer
               /\ out'.logged
               /\ known' = known
               /\ UNCHANGED <<tasks, mappings, storybooks, pagesTbl, links>>]_vars
C18_Witness ==
    /\ out.kind \in {"status", "result"} /\ out.user = "u2"
    /\ HasTask(out.tid) /\ ~Mine(out.tid, "u2")
    /\ StatusOf(out.tid) = "completed"
    /\ out.resp = NotFoundAnswer
    /\ faults = 0

\* C19 as stated: the accumulated text does not depend on how the bytes of
\* the stream are cut into read buffers: it is the text that one read of the
\* whole stream gives.
C19_Original ==
    reader.pc = "done" => reader.result = ReadStream(<<Wire(reader.lines)>>)

\* C20 as stated: the accumulated text is the concatenation, in stream
\* order, of the content of exactly the event lines that carry valid JSON of
\* type message with non-empty content and the assistant role.
Counts(line) ==
    /\ Len(line) = 2 /\ line[1] = DataPrefix /\ line[2] \in DOMAIN Messages
    /\ LET data == Messages[line[2]]
       IN  data.type = "message" /\ data.content # <<>> /\ data.role = "assistant"
AssistantText(lines) ==
    Concat([i \in DOMAIN lines |->
               IF Counts(lines[i]) THEN Messages[lines[i][2]].content ELSE <<>>])
C20_Original ==
    reader.pc = "done" => reader.result = AssistantText(reader.lines)
\* The same for the streams whose read buffers all end at the end of a line.
C20_WholeLines ==
    (reader.pc = "done" /\ ~reader.split) => reader.result = AssistantText(reader.lines)
C20_WholeLinesSeen ==
    /\ reader.pc = "done" /\ ~reader.split /\ Len(reader.lines) = MaxLines
    /\ reader.lines[1] = <<DataPrefix, "bad">> /\ reader.lines[2] = <<DataPrefix, "J1">>
    /\ reader.result = Messages["J1"].content

\* C21: the pages returned by parseStoryContent are, in input order, the
\* page blocks (from a page-header line up to the next one or the end of the
\* text) whose text and image are both non-empty when the block ends, each
\* holding the value of the last text line and of the last image line of the
\* block; the other blocks are dropped.
Trimmed(lines) == [i \in DOMAIN lines |-> Trim(lines[i])]
HeadersIn(ls) ==
    LET isHeader(i) == IsPageHeader(ls[i])
    IN  SelectSeq([i \in DOMAIN ls |-> i], isHeader)
BlockEnd(ls, h) ==
    LET next == {i \in (h + 1)..Len(ls) : IsPageHeader(ls[i])}
    IN  IF next = {} THEN Len(ls)
        ELSE (CHOOSE i \in next : \A j \in next : i <= j) - 1
LastValue(ls, h, marker) ==
    LET hits == {i \in (h + 1)..BlockEnd(ls, h) : StartsWith(ls[i], marker)}
    IN  IF hits = {} THEN <<>>
        ELSE LET last == CHOOSE i \in hits : \A j \in hits : j <= i
             IN  Trim(SubSeq(ls[last], Len(marker) + 1, Len(ls[last])))
BlockPages(ls) ==
    LET heads == HeadersIn(ls)
        both(page) == page.text # <<>> /\ page.image # <<>>
    IN  SelectSeq([k \in DOMAIN heads |->
                      [text |-> LastValue(ls, heads[k], TextMarker),
                       image |-> LastValue(ls, heads[k], ImageMarker)]], both)
C21_PagesAreBlocks ==
    parser.pc = "returned" => parser.ret.pages = BlockPages(Trimmed(parser.lines))
C21_Witness ==
    /\ parser.pc = "returned"
    /\ parser.lines = <<<<"di", "1", "ye", ":">>, TextMarker \o <<"b">>,
                        TextMarker \o <<" ", "d", " ">>, ImageMarker \o <<"c">>,
                        <<" ", "di", "2", "ye", " ">>>>
    /\ parser.ret.pages = <<[text |-> <<"d">>, image |-> <<"c">>]>>

\* C22 as stated: every failure response of submit, status check and result
\* fetch (401, 429, 404, 500) comes after an audit error record written for
\* that request.
FailureCodes == {401, 429, 404, 500}
C22_Original ==
    (out.kind \in Kinds /\ out.resp.code \in FailureCodes) => out.logged

\* C23 as stated: a status check or a result fetch that looks up the mapping
\* of an owned task and finds none answers 404.
C23_Original ==
    [][\A s \in Slots :
          (/\ req[s].kind \in {"status", "result"}
           /\ req[s].pc \in {"t_map", "r_map"}
           /\ Mine(req[s].tid, req[s].user)
           /\ MappingOf(req[s].tid) = <<>>
           /\ req'[s] # req[s] /\ faults' = faults)
            => out'.resp.code = 404]_vars

\* C24 as stated: in every reachable state a task has a mapping row exactly
\* when the external job for it has been initiated successfully, and it has
\* at most one mapping row.
C24_Original ==
    \A tid \in 1..ids :
        /\ (MappingOf(tid) # <<>>) <=> (InitiatedFor(tid) # {})
        /\ Len(MappingOf(tid)) <= 1
\* The same for the states in which no request is in flight.
C24_AtRest ==
    (\A s \in Slots : req[s].pc = "idle") => C24_Original

\* C25 as stated: a result fetch for a task in processing whose external job
\* has already ended moves the task to the status the job ended with.
EndedJobs(tid) ==
    {j \in DOMAIN jobs : jobs[j].task = tid /\ jobs[j].status \in {"completed", "failed"}}
C25_Original ==
    [][\A s \in Slots :
          (/\ At(s, "result", "r_select")
           /\ Mine(req[s].tid, req[s].user)
           /\ StatusOf(req[s].tid) = "processing"
           /\ EndedJobs(req[s].tid) # {}
           /\ req'[s].pc = "idle" /\ faults' = faults)
            => \E i \in DOMAIN tasks' : \E j \in EndedJobs(req[s].tid) :
                  tasks'[i].id = req[s].tid /\ tasks'[i].status = jobs[j].status]_vars

\* C26: a call of checkRateLimit that finds the window row at or above the
\* ceiling is denied and leaves the rate table as it was: no count is
\* raised, no row is added, and the call writes nothing afterwards.
FullWindow(s) ==
    LET live == WindowRows(rl, req[s].user, Endpoint(req[s].kind), req[s].calledAt)
    IN  Cardinality(live) = 1 /\ \A row \in live : row.request_count >= limit
C26_DeniedWritesNothing ==
    [][\A s \in Slots :
          /\ (req[s].pc = "rl_lookup" /\ req'[s] # req[s] /\ faults' = faults
              /\ FullWindow(s))
               => out'.resp.code = 429
          /\ (Returns(s) /\ out'.resp.code = 429)
               => rl' = rl /\ admitted' = admitted]_vars
C26_Witness ==
    /\ out.resp.code = 429 /\ out.kind \in RateKinds
    /\ \E row \in rl : row.request_count = limit /\ row.endpoint = Endpoint(out.kind)
    /\ Cardinality(rl) = 1 /\ Len(admitted) = limit /\ faults = 0

\* C27 as stated: in every reachable state, also with concurrent calls of
\* one user on one operation, at most one row of a (user, operation) pair
\* has its start within the trailing window length.
C27_Original ==
    \A user \in Users, kind \in RateKinds :
        Cardinality(WindowRows(rl, user, Endpoint(kind), now)) <= 1
\* The same for calls made one at a time.
C27_Sequential == lanes = 1 => C27_Original

\* C28: in every reachable state, with calls one at a time and with several
\* at a time, the request counter of every rate-window row is at most the
\* ceiling of its (user, operation) pair.
C28_CounterWithinCeiling ==
    \A row \in rl : row.request_count <= limit /\ row.max_requests = limit
C28_Witness ==
    /\ lanes = MaxSlots /\ faults = 0 /\ limit = MaxCeiling
    /\ out.ext = "counted"
    /\ rl = {[user_id |-> out.user, endpoint |-> Endpoint(out.kind),
              request_count |-> limit, window_start |-> 0, max_requests |-> limit]}
    /\ Len(AdmissionsOf(admitted, out.user, Endpoint(out.kind))) = limit + 1

\* C29: some interleaving of concurrent calls of one user on one operation
\* admits more than ceiling calls within one window, and it takes
\* concurrent calls to do so: calls made one at a time, with no storage
\* error, never do.
InLastWindow(log, user, endpoint) ==
    LET mine == AdmissionsOf(log, user, endpoint)
        start == LastOpened(mine, -1)
    IN  Cardinality({i \in DOMAIN mine : mine[i].at >= start})
OverAdmitted ==
    \E user \in Users, kind \in RateKinds :
        InLastWindow(admitted, user, Endpoint(kind)) > limit
C29_OvershootByRace == (faults = 0 /\ OverAdmitted) => lanes > 1
C29_Witness ==
    /\ faults = 0 /\ limit = 1 /\ lanes = MaxSlots
    /\ out.ext = "opened" /\ Len(admitted) = 2
    /\ InLastWindow(admitted, out.user, Endpoint(out.kind)) = 2
    /\ \A s \in Slots : req[s].pc = "idle"

\* C30: the title returned by parseStoryContent is the value of the last
\* title line of the text, wherever the title lines stand, and the pages
\* returned are those of the text without its title lines: a title line
\* neither ends nor changes the page under construction.
IsTitle(line) == StartsWith(Trim(line), TitleMarker)
TitleLines(lines) == {i \in DOMAIN lines : IsTitle(lines[i])}
LastTitle(lines) ==
    IF TitleLines(lines) = {} THEN <<>>
    ELSE LET last == CHOOSE i \in TitleLines(lines) : \A j \in TitleLines(lines) : j <= i
             line == Trim(lines[last])
         IN  Trim(SubSeq(line, Len(TitleMarker) + 1, Len(line)))
WithoutTitles(lines) ==
    LET other(line) == ~IsTitle(line) IN SelectSeq(lines, other)
C30_LastTitleWins ==
    parser.pc = "returned"
      => /\ parser.ret.title = LastTitle(parser.lines)
         /\ parser.ret.pages = parseStoryContent(TextOf(WithoutTitles(parser.lines))).pages
C30_Witness ==
    /\ parser.pc = "returned"
    /\ parser.lines = <<TitleMarker \o <<" ", "a">>, <<"di", "1", "ye", ":">>,
                        TextMarker \o <<"b">>, <<" ">> \o TitleMarker \o <<"z">>,
                        ImageMarker \o <<"c">>>>
    /\ parser.ret = [title |-> <<"z">>,
                     pages |-> <<[text |-> <<"b">>, image |-> <<"c">>]>>]

C32_PartialTextDiscarded ==
    [][out'.ext = "stream_error" =>
          /\ out'.resp.code = 500
          /\ storybooks' = storybooks /\ pagesTbl' = pagesTbl /\ links' = links
          /\ tasks' = tasks /\ mappings' = mappings
          /\ \A s \in DOMAIN req :
                At(s, "result", "r_stream") /\ req'[s] # req[s] => req'[s] = Idle]_vars

\* A result fetch of a completed Task has failed on its stream while no
\* storybook is stored for the Task.
C32_Witness ==
    /\ out.kind = "result" /\ out.ext = "stream_error"
    /\ out.resp.code = 500
    /\ BooksOf(out.tid) = <<>>
    /\ \E i \in DOMAIN tasks : tasks[i].id = out.tid /\ tasks[i].status = "completed"

\* ---------------------------------------------------------------------------
\* C33: once the initiate call of a submit has succeeded, no later step of that
\* submit sets a Task or a JobMapping to failed.
InitiateSucceeded(s) ==
    /\ req[s].kind = "submit"
    /\ req[s].pc \in {"s_upd_task", "s_upd_map", "s_catch_task", "s_catch_map"}
    /\ req[s].ext # "initiate_error"
C33_Original ==
    [][\A s \in DOMAIN req :
          InitiateSucceeded(s) /\ req'[s] # req[s] =>
              /\ \A i \in DOMAIN tasks :
                    tasks'[i].status = "failed" => tasks[i].status = "failed"
              /\ \A i \in DOMAIN mappings :
                    mappings'[i].status = "failed" => mappings[i].status = "failed"]_vars

\* ---------------------------------------------------------------------------
\* C34: a Task is completed only if the external job named by the run id of
\* its JobMapping has reported completed to a status check; every completed
\* Task therefore has a JobMapping that holds a run id.
C34_CompletedOnlyByReport ==
    \A i \in DOMAIN tasks :
        tasks[i].status = "completed" =>
            /\ Len(MappingOf(tasks[i].id)) = 1
            /\ LET run == MappingOf(tasks[i].id)[1].run
               IN  /\ run # NoId
                   /\ run \in DOMAIN jobs
                   /\ jobs[run].task = tasks[i].id
                   /\ jobs[run].status = "completed"
                   /\ jobs[run].reported = "completed"

\* A Task is stored as completed.
C34_Witness ==
    \E i \in DOMAIN tasks : tasks[i].status = "completed"

\* ---------------------------------------------------------------------------
\* C35: with one request at a time, the status carried by the answer of a
\* status check is the status of the Task row in the store at that moment,
\* also when an update of the write-through was rejected.
C35_Original ==
    (out.kind = "status" /\ out.resp.code = 200 /\ out.resp.body = "status") =>
        \A i \in DOMAIN tasks :
            tasks[i].id = out.resp.task_id => tasks[i].status = out.resp.status

\* ---------------------------------------------------------------------------
\* C36: the persisted pages of a document carry the page numbers 1..n, one
\* after the other in the order of the complete page blocks of the text,
\* whatever numbers the page headers carry and whichever blocks were dropped.
C36_PagesNumberedInOrder ==
    parser.pc = "persisted" =>
        LET blocks == BlockPages(Trimmed(parser.lines))
        IN  /\ Len(pagesTbl) = Len(blocks)
            /\ {pagesTbl[i].page_number : i \in DOMAIN pagesTbl} = 1..Len(blocks)
            /\ \A i \in DOMAIN pagesTbl :
                  /\ pagesTbl[i].page_number = i
                  /\ pagesTbl[i].content = blocks[i].text
                  /\ pagesTbl[i].image_description = blocks[i].image

\* The block headed 1 is dropped and the block headed 2 is persisted as page 1.
C36_Witness ==
    /\ parser.pc = "persisted"
    /\ parser.lines = <<TitleMarker \o <<" ", "a">>, <<"di", "1", "ye", ":">>,
                        <<" ", "di", "2", "ye", " ">>, TextMarker \o <<"b">>,
                        ImageMarker \o <<"c">>>>
    /\ Len(pagesTbl) = 1
    /\ pagesTbl[1].page_number = 1

\* ---------------------------------------------------------------------------
\* C37: the limiter is a sliding window: with requests one after the other and
\* no storage error, no interval of one window length, wherever it starts,
\* holds more admitted requests of a user and operation than the ceiling.
AdmittedWithin(log, user, endpoint, from) ==
    LET mine == AdmissionsOf(log, user, endpoint)
    IN  Cardinality({i \in DOMAIN mine :
                        from <= mine[i].at /\ mine[i].at < from + WindowMinutes})
C37_Original ==
    faults = 0 =>
        \A user \in Users, kind \in RateKinds, from \in 0..MaxTime :
            AdmittedWithin(admitted, user, Endpoint(kind), from) <= limit

\* ---------------------------------------------------------------------------
\* C38: an overshoot is transient: once a burst has finished (no request is in
\* flight), a request made alone in the same window in which at least ceiling
\* requests were admitted is denied.
Alone(s) == \A o \in Slots \ {s} : req[o].pc = "idle"
Called(s) == req[s].pc = "idle" /\ req'[s].pc = "rl_lookup"
C38_Original ==
    [][\A s \in Slots :
          (/\ Called(s) /\ Alone(s)
           /\ faults = 0
           /\ AdmittedInWindow(admitted, req'[s].user, Endpoint(req'[s].kind), now)
                  >= limit)
            => RateDenies(rl, req'[s].user, Endpoint(req'[s].kind), limit, now)]_vars

\* ---------------------------------------------------------------------------
\* C39: a Task whose initiate call succeeded reaches completed or failed once
\* the job has reported a terminal status, provided the owner keeps making
\* admitted status checks.  A status check advances a Task only by polling
\* its job, so the statement needs every admitted status check that the owner
\* makes with a session, for a Task whose job was started, to poll the job
\* unless the Task is completed or failed already.
AnsweredWithoutPoll(s) ==
    /\ req[s].kind = "status" /\ req[s].pc = "t_map" /\ req[s].cred = "ok"
    /\ req'[s].pc = "idle"
    /\ faults' = faults
C39_Original ==
    [][\A s \in Slots :
          (AnsweredWithoutPoll(s) /\ InitiatedFor(req[s].tid) # {})
            => StatusOf(req[s].tid) \in {"completed", "failed"}]_vars
\* A Task left in pending by its submit although its job was started.
C39_Stuck ==
    \E i \in DOMAIN tasks :
        /\ tasks[i].status = "pending"
        /\ InitiatedFor(tasks[i].id) # {}
        /\ \A s \in Slots : ~(req[s].kind = "submit" /\ req[s].tid = tasks[i].id)
\* No request and no report of the job moves such a Task.
C39_StuckForever == [][C39_Stuck => C39_Stuck']_vars

\* ---------------------------------------------------------------------------
\* C40: a submit that is answered 401 or 429 creates no Task row and no
\* JobMapping row and does not call the external service: its answer leaves
\* the three untouched and no row or job carries the id of that request.
C40_RejectedSubmitCreatesNothing ==
    [][(out'.kind = "submit" /\ out'.resp.code \in {401, 429}) =>
          /\ tasks' = tasks /\ mappings' = mappings /\ jobs' = jobs
          /\ out'.tid # NoId =>
                /\ TaskOf(out'.tid) = <<>>
                /\ MappingOf(out'.tid) = <<>>
                /\ InitiatedFor(out'.tid) = {}]_vars

\* A submit of a signed-in user without a session token is answered 401
\* after it passed the rate limiter.
C40_Witness ==
    /\ out.kind = "submit" /\ out.resp.code = 401
    /\ out.resp.body = "No valid session"
    /\ out.tid # NoId
    /\ TaskOf(out.tid) = <<>> /\ MappingOf(out.tid) = <<>>

====
